---------------------------- MODULE Spec2Model ----------------------------
(***************************************************************************)
(* ScholarMCP research engine: the ingestion job state machine             *)
(* (IngestionService), the HTTP session manager (createHttpApp) and the    *)
(* federated literature aggregator (LiteratureService).                    *)
(*                                                                         *)
(* JavaScript runs each synchronous block to completion; other callbacks   *)
(* interleave only at an await.  Every action below is one such block (or  *)
(* a part of one, chained by a program counter that admits no other        *)
(* action in between).                                                     *)
(***************************************************************************)
EXTENDS Integers, Sequences, FiniteSets, TLC

VARIABLES
    \* ---- IngestionService (src/unnamed/part_001) ----
    jobs,          \* this.jobs : jobId -> IngestionJob
    documents,     \* this.documents : documentId -> ParsedDocument
    worker,        \* per job: position of processJob and its locals
    tmpFiles,      \* temporary PDF files present on disk
    uuidSeq,       \* number of randomUUID() draws made so far
    active,        \* the enqueueIngestion call on the stack (its jobId), or NoCall
    returned,      \* what enqueueIngestion handed back, one entry per call
    config,        \* AppConfig fields read by the modelled code
    \* ---- createHttpApp (src/src/http/start-http-server.ts) ----
    sessions,      \* the session table, in Map insertion order
    closes,        \* per session id: how often closeSession closed it
    transportCloses, \* per session id: how often closeSession closed its transport
    reqs,          \* requests to the MCP endpoint: position and locals of each
    sidSeq,        \* number of session ids generated so far
    clock,         \* Date.now()
    \* ---- LiteratureService (src/unnamed/part_002) ----
    searchCache,   \* this.searchCache, in Map insertion order
    heap,          \* the LiteratureSearchResult objects allocated so far, by reference
    calls,         \* searchGraph calls: position and locals of each
    adapters,      \* what each provider's searchWorks answers in this run
    \* ---- createScholarMcpServer (src/unnamed/part_005) ----
    lastToolCall,  \* the tool handler invocation that settled last
    \* ---- pure functions (src/unnamed/part_001, citation-service.ts) ----
    applied,       \* a function under study: its argument and the values computed
    \* ---- ResearchHttpClient (src/src/research/research-service.ts) ----
    fetcher        \* this.lastRequestAt, the fetchJson calls and the requests sent

vars == <<jobs, documents, worker, tmpFiles, uuidSeq, active, returned, config,
          sessions, closes, transportCloses, reqs, sidSeq, clock,
          searchCache, heap, calls, adapters, lastToolCall, applied, fetcher>>

ingestVars == <<jobs, documents, worker, tmpFiles, uuidSeq, active, returned>>

httpVars == <<sessions, closes, transportCloses, reqs, sidSeq, clock>>

graphVars == <<searchCache, heap, calls, adapters>>

\* What the ingestion actions leave alone, what the HTTP actions do, and what
\* the aggregator actions do (the clock apart, which they only read).
nonIngestVars == <<httpVars, graphVars, lastToolCall, applied, fetcher>>

nonHttpVars == <<ingestVars, graphVars, lastToolCall, applied, fetcher>>

nonGraphVars == <<ingestVars, sessions, closes, transportCloses, reqs, sidSeq, lastToolCall, applied, fetcher>>

-----------------------------------------------------------------------------
(* Bounds *)

MaxJobs == 2

MaxRequests == 3

MaxClock == 3

\* config.httpMaxSessions and config.httpSessionTtlMs of the modelled runs
MaxSessions == 2

SessionTtl == 1

\* requests of an admission run
MaxAdmitRequests == 2

\* pieces a DOI text is put together from
MaxDoiPieces == 3

\* pieces the content of a bracket group is put together from
MaxCitationPieces == 4

\* pieces a manuscript with citations is put together from
MaxManuscriptPieces == 3

\* searchGraph calls of a cache run, and how many of them may overlap
MaxCalls == 3

MaxInFlight == 2

\* searchGraph calls of a merge run
MaxMergeCalls == 1

\* config.researchGraphCacheTtlMs and config.researchGraphMaxCacheEntries
CacheTtl == 2

MaxCacheEntries == 1

\* fetchJson calls of a run, the time until which calls come in, and
\* config.researchTimeoutMs, researchRetryAttempts, researchRetryDelayMs and
\* researchRequestDelayMs of the modelled runs
MaxFetches == 2

MaxFetchClock == 4

FetchTimeout == 2

RetryAttempts == 1

RetryDelay == 1

RequestDelay == 2

\* config.researchGraphFuzzyTitleThreshold, in hundredths
FuzzyTitleThreshold == 80

-----------------------------------------------------------------------------
(* Values *)

NULL == "null"

NoCall == [prefix |-> "none", seed |-> <<>>]

Truthy(v) == v # NULL /\ v # ""

\* IngestPaperInput: each source field absent (NULL) or one sample value; the
\* parse mode is varied on the inputs that need no DOI or landing-page lookup.
IngestInputs ==
    { i \in [doi : {NULL, "10.1000/x"},
             paperUrl : {NULL, "https://host/paper"},
             pdfUrl : {NULL, "https://host/direct.pdf"},
             localPdfPath : {NULL, "/data/local.pdf"},
             parseMode : {"auto", "grobid", "simple"}] :
        i.parseMode = "auto" \/ (i.doi = NULL /\ i.paperUrl = NULL) }

\* What literatureService.resolveByDoi can hand back (only the fields
\* resolveSource reads): nothing, a landing page, a landing page plus an
\* open-access PDF, or a URL that is itself a PDF.
ResolvedWorks ==
    { [found |-> FALSE, url |-> NULL, pdfUrl |-> NULL, doi |-> NULL],
      [found |-> TRUE, url |-> "https://oa/landing", pdfUrl |-> NULL, doi |-> "10.1000/x"],
      [found |-> TRUE, url |-> "https://oa/landing", pdfUrl |-> "https://oa/open.pdf", doi |-> "10.1000/x"],
      [found |-> TRUE, url |-> "https://oa/file.pdf", pdfUrl |-> NULL, doi |-> "10.1000/x"] }

NoWork == [found |-> FALSE, url |-> NULL, pdfUrl |-> NULL, doi |-> NULL]

EndsWithPdf(url) == url \in {"https://host/direct.pdf", "https://oa/open.pdf", "https://oa/file.pdf", "https://landing/found.pdf"}

\* a ?? b
Coalesce(a, b) == IF a # NULL THEN a ELSE b

RandomUuid(n) == "uuid-" \o ToString(n)

-----------------------------------------------------------------------------
(* utils: makeStableId *)

RECURSIVE FilterBoolean(_)
FilterBoolean(parts) ==
    IF parts = <<>> THEN <<>>
    ELSE IF Truthy(Head(parts)) THEN <<Head(parts)>> \o FilterBoolean(Tail(parts))
    ELSE FilterBoolean(Tail(parts))

\* A faulty variant: the random fallback taken for every input.
makeStableIdAlwaysRandom(parts, prefix, uuid) ==
    [prefix |-> prefix, seed |-> <<RandomUuid(uuid)>>]

\* parts.filter(Boolean).join('|'), then the SHA-1 digest of the joined value
\* (kept as the joined parts: the digest decides equality of ids exactly as
\* the joined value does, collisions apart); with nothing to join, a random
\* UUID.  uuid is the draw randomUUID() would return.
makeStableId(parts, prefix, uuid) ==
    LET value == FilterBoolean(parts)
    IN IF value = <<>>
       THEN [prefix |-> prefix, seed |-> <<RandomUuid(uuid)>>]
       ELSE [prefix |-> prefix, seed |-> value]

sourceSeed(input) == <<input.doi, input.paperUrl, input.pdfUrl, input.localPdfPath>>

-----------------------------------------------------------------------------
(* IngestionService *)

InitIngest ==
    /\ jobs = <<>>
    /\ documents = <<>>
    /\ worker = <<>>
    /\ tmpFiles = {}
    /\ uuidSeq = 0
    /\ active = NoCall
    /\ returned = <<>>

\* The configuration a run starts from when nothing else is chosen.
DefaultConfig ==
    [researchAllowRemotePdfs |-> TRUE,
     researchAllowLocalPdfs |-> TRUE,
     researchGrobidUrl |-> NULL,
     host |-> "127.0.0.1",
     allowedOrigins |-> {},
     allowedHosts |-> {},
     apiKey |-> NULL,
     httpSessionMode |-> "stateful",
     httpSessionTtlMs |-> SessionTtl,
     httpMaxSessions |-> MaxSessions,
     researchGraphCacheTtlMs |-> CacheTtl,
     researchGraphMaxCacheEntries |-> MaxCacheEntries,
     researchGraphProviderResultMultiplier |-> 2,
     researchGraphFuzzyTitleThreshold |-> FuzzyTitleThreshold,
     researchTimeoutMs |-> FetchTimeout,
     researchRetryAttempts |-> RetryAttempts,
     researchRetryDelayMs |-> RetryDelay,
     researchRequestDelayMs |-> RequestDelay]

\* No search has run; the adapters answer nothing.
InitGraph ==
    /\ searchCache = <<>>
    /\ heap = <<>>
    /\ calls = <<>>
    /\ adapters = <<>>

NoToolCall == [tool |-> NULL]

\* new ResearchHttpClient(config): lastRequestAt = 0; no call has been made
\* and no request sent.
NewFetcher == [lastRequestAt |-> 0, fetches |-> <<>>, requestedAt |-> <<>>]

\* No tool has been called, no function is under study.
InitTools ==
    /\ lastToolCall = NoToolCall
    /\ applied = [fn |-> NULL]
    /\ fetcher = NewFetcher

InitHttp ==
    /\ sessions = <<>>
    /\ closes = <<>>
    /\ transportCloses = <<>>
    /\ reqs = <<>>
    /\ sidSeq = 0
    /\ clock = 0

\* The locals of a processJob call that has settled: nothing is kept but the
\* input the closure of enqueueIngestion holds.
Settled(input) ==
    [pc |-> "done", input |-> input, pdfUrl |-> NULL, localPdfPath |-> NULL,
     filePath |-> NULL, unlinked |-> NULL, parserName |-> NULL, warned |-> <<>>,
     thrown |-> NULL, thrownAt |-> NULL]

\* enqueueIngestion up to this.jobs.set(jobId, job): the ids and the queued job.
EnqueueIngestion(input) ==
    /\ active = NoCall
    /\ Cardinality(DOMAIN jobs) < MaxJobs
    /\ LET seed == sourceSeed(input)
           docDraws == IF FilterBoolean(seed) = <<>> THEN 1 ELSE 0
           documentId == makeStableId(seed, "doc", uuidSeq + 1)
           jobUuid == uuidSeq + docDraws + 1
           jobId == makeStableId(seed \o <<RandomUuid(jobUuid)>>, "job", jobUuid + 1)
           job == [jobId |-> jobId,
                   documentId |-> documentId,
                   status |-> "queued",
                   startedAt |-> NULL,
                   completedAt |-> NULL,
                   source |-> [doi |-> input.doi, paperUrl |-> input.paperUrl,
                               pdfUrl |-> input.pdfUrl, localPdfPath |-> input.localPdfPath],
                   parserName |-> NULL,
                   licenseState |-> "unknown",
                   error |-> NULL]
       IN /\ jobs' = (jobId :> job) @@ jobs
          /\ worker' = (jobId :> [Settled(input) EXCEPT !.pc = "start"]) @@ worker
          /\ uuidSeq' = jobUuid
          /\ active' = jobId
    /\ UNCHANGED <<documents, tmpFiles, returned, config, nonIngestVars>>

\* A faulty variant: the job is marked finished as soon as the worker starts.
ProcessJobStartOptimistic(jobId) ==
    /\ active = jobId
    /\ worker[jobId].pc = "start"
    /\ jobs' = [jobs EXCEPT ![jobId].status = "succeeded", ![jobId].startedAt = "set"]
    /\ worker' = [worker EXCEPT ![jobId].pc = "resolve"]
    /\ UNCHANGED <<documents, tmpFiles, uuidSeq, active, returned, config, nonIngestVars>>

\* processJob up to its first await, run inside enqueueIngestion by the call
\* this.processJob(jobId, input): status running, startedAt set.
ProcessJobStart(jobId) ==
    /\ active = jobId
    /\ worker[jobId].pc = "start"
    /\ jobs' = [jobs EXCEPT ![jobId].status = "running", ![jobId].startedAt = "set"]
    /\ worker' = [worker EXCEPT ![jobId].pc = "resolve"]
    /\ UNCHANGED <<documents, tmpFiles, uuidSeq, active, returned, config, nonIngestVars>>

\* return job: the caller receives the job record as it is at this moment.
EnqueueReturn(jobId) ==
    /\ active = jobId
    /\ worker[jobId].pc = "resolve"
    /\ returned' = Append(returned, [input |-> worker[jobId].input, job |-> jobs[jobId]])
    /\ active' = NoCall
    /\ UNCHANGED <<jobs, documents, worker, tmpFiles, uuidSeq, config, nonIngestVars>>

Throw(jobId, message, at) ==
    worker' = [worker EXCEPT ![jobId].pc = "rejected", ![jobId].thrown = message,
                             ![jobId].thrownAt = at]

\* The PDF URL resolveSource settles on: explicit pdfUrl, the work's
\* open-access PDF, a paper URL ending in .pdf, the landing-page discovery.
resolvedPdfUrl(input, work, discovered) ==
    LET paperUrlCandidate == Coalesce(input.paperUrl, work.url)
        paperUrlPdfCandidate == IF paperUrlCandidate # NULL /\ EndsWithPdf(paperUrlCandidate)
                                THEN paperUrlCandidate ELSE NULL
    IN Coalesce(input.pdfUrl, Coalesce(work.pdfUrl, Coalesce(paperUrlPdfCandidate, discovered)))

\* resolveSource and the assignments processJob makes from its result.
ResolveSource(jobId) ==
    /\ active = NoCall
    /\ worker[jobId].pc = "resolve"
    /\ LET input == worker[jobId].input
       IN IF Truthy(input.localPdfPath)
          THEN IF ~config.researchAllowLocalPdfs
               THEN /\ Throw(jobId, "Local PDF ingestion is disabled by configuration.", "resolve")
                    /\ UNCHANGED jobs
               ELSE \E accessible \in BOOLEAN :
                      IF accessible
                      THEN /\ worker' = [worker EXCEPT ![jobId].pc = "obtain",
                                                       ![jobId].localPdfPath = input.localPdfPath]
                           /\ jobs' = [jobs EXCEPT
                                 ![jobId].source = [doi |-> input.doi, paperUrl |-> input.paperUrl,
                                                    pdfUrl |-> input.pdfUrl,
                                                    localPdfPath |-> input.localPdfPath],
                                 ![jobId].licenseState = "user_provided"]
                      ELSE /\ Throw(jobId, "ENOENT: no such file or directory", "resolve")
                           /\ UNCHANGED jobs
          ELSE IF ~config.researchAllowRemotePdfs
               THEN /\ Throw(jobId, "Remote PDF ingestion is disabled by configuration.", "resolve")
                    /\ UNCHANGED jobs
               ELSE \E work \in (IF Truthy(input.doi) THEN ResolvedWorks ELSE {NoWork}),
                       found \in BOOLEAN :
                      LET hasLanding == Coalesce(input.paperUrl, work.url) # NULL
                          discovered == IF found /\ hasLanding THEN "https://landing/found.pdf" ELSE NULL
                          url == resolvedPdfUrl(input, work, discovered)
                      IN /\ (found => hasLanding)
                         /\ IF url = NULL
                            THEN /\ Throw(jobId, "Unable to resolve a downloadable PDF URL from input.", "resolve")
                                 /\ UNCHANGED jobs
                            ELSE /\ worker' = [worker EXCEPT ![jobId].pc = "obtain",
                                                             ![jobId].pdfUrl = url]
                                 /\ jobs' = [jobs EXCEPT
                                       ![jobId].source = [doi |-> Coalesce(input.doi, work.doi),
                                                          paperUrl |-> Coalesce(input.paperUrl, work.url),
                                                          pdfUrl |-> url,
                                                          localPdfPath |-> NULL],
                                       ![jobId].licenseState = "open_access"]
    /\ UNCHANGED <<documents, tmpFiles, uuidSeq, active, returned, config, nonIngestVars>>

\* obtainPdfFile: a local file is used in place; a remote one is downloaded,
\* checked and written to a temporary file.
ObtainPdfFile(jobId) ==
    /\ active = NoCall
    /\ worker[jobId].pc = "obtain"
    /\ IF worker[jobId].localPdfPath # NULL
       THEN /\ worker' = [worker EXCEPT ![jobId].pc = "parse",
                                        ![jobId].filePath = worker[jobId].localPdfPath]
            /\ UNCHANGED tmpFiles
       ELSE \E outcome \in {"ok", "fetch failed", "Failed to download PDF. HTTP 404",
                             "Downloaded content is not a PDF (content-type: text/html)."} :
              IF outcome = "ok"
              THEN /\ worker' = [worker EXCEPT ![jobId].pc = "parse",
                                               ![jobId].filePath = "tmp"]
                   /\ tmpFiles' = tmpFiles \cup {jobId}
              ELSE /\ Throw(jobId, outcome, "obtain")
                   /\ UNCHANGED tmpFiles
    /\ UNCHANGED <<jobs, documents, uuidSeq, active, returned, config, nonIngestVars>>

\* A faulty variant: the simple parser is tried before GROBID.
resolveParserOrderSimpleFirst(parseMode) ==
    IF parseMode = "auto" THEN <<"simple", "grobid">>
    ELSE IF parseMode = "grobid" THEN <<"simple", "grobid">>
    ELSE <<"simple">>

resolveParserOrder(parseMode) ==
    IF parseMode = "auto" THEN <<"grobid", "simple">>
    ELSE IF parseMode = "grobid" THEN <<"grobid", "simple">>
    ELSE <<"simple">>

\* The for loop of parseSourcePdf: the first parser of the order that
\* succeeds, grobid skipped without an endpoint; "none" when all fail.
\* succeeds[mode] is what that parser would do on this file.
RECURSIVE runParsers(_, _)
runParsers(modes, succeeds) ==
    IF modes = <<>> THEN "none"
    ELSE IF Head(modes) = "grobid" /\ config.researchGrobidUrl = NULL
         THEN runParsers(Tail(modes), succeeds)
    ELSE IF succeeds[Head(modes)]
         THEN (IF Head(modes) = "grobid" THEN "grobid" ELSE "pdf-parse")
    ELSE runParsers(Tail(modes), succeeds)

\* A faulty variant: the file of the job is unlinked whatever its origin.
cleanupAlways(jobId, files) ==
    [files |-> files \ {jobId}, unlinked |-> worker[jobId].filePath]

\* cleanup() as obtainPdfFile built it: nothing for a local PDF, fs.unlink
\* of the temporary file for a downloaded one.  files are the temporary
\* files on disk, unlinked the path handed to fs.unlink.
cleanup(jobId, files) ==
    IF worker[jobId].localPdfPath # NULL
    THEN [files |-> files, unlinked |-> NULL]
    ELSE [files |-> files \ {jobId}, unlinked |-> worker[jobId].filePath]

\* The modes for which the catch block of the loop logged 'Parser mode
\* failed, trying fallback', in the order of the warnings.
RECURSIVE warnedParsers(_, _)
warnedParsers(modes, succeeds) ==
    IF modes = <<>> THEN <<>>
    ELSE IF Head(modes) = "grobid" /\ config.researchGrobidUrl = NULL
         THEN warnedParsers(Tail(modes), succeeds)
    ELSE IF succeeds[Head(modes)] THEN <<>>
    ELSE <<Head(modes)>> \o warnedParsers(Tail(modes), succeeds)

\* parseSourcePdf after obtainPdfFile: the parser chain, then cleanup() in
\* the finally block.
ParseSourcePdf(jobId) ==
    /\ active = NoCall
    /\ worker[jobId].pc = "parse"
    /\ \E succeeds \in [{"grobid", "simple"} -> BOOLEAN] :
         LET modes == resolveParserOrder(worker[jobId].input.parseMode)
             parser == runParsers(modes, succeeds)
             warned == warnedParsers(modes, succeeds)
         IN IF parser = "none"
            THEN worker' = [worker EXCEPT
                     ![jobId].pc = "rejected", ![jobId].warned = warned,
                     ![jobId].unlinked = cleanup(jobId, tmpFiles).unlinked,
                     ![jobId].thrown = "All parser strategies failed for this PDF source.",
                     ![jobId].thrownAt = "parse"]
            ELSE worker' = [worker EXCEPT ![jobId].pc = "parsed", ![jobId].warned = warned,
                                          ![jobId].unlinked = cleanup(jobId, tmpFiles).unlinked,
                                          ![jobId].parserName = parser]
    /\ tmpFiles' = cleanup(jobId, tmpFiles).files
    /\ UNCHANGED <<jobs, documents, uuidSeq, active, returned, config, nonIngestVars>>

\* A faulty variant: the job succeeds but its document is not stored.
ProcessJobFinishNoStore(jobId) ==
    /\ active = NoCall
    /\ worker[jobId].pc = "parsed"
    /\ jobs' = [jobs EXCEPT ![jobId].status = "succeeded",
                            ![jobId].completedAt = "set",
                            ![jobId].parserName = worker[jobId].parserName]
    /\ worker' = [worker EXCEPT ![jobId] = Settled(worker[jobId].input)]
    /\ UNCHANGED <<documents, tmpFiles, uuidSeq, active, returned, config, nonIngestVars>>

\* A faulty variant: a document already stored under the id is kept.
ProcessJobFinishKeepFirst(jobId) ==
    /\ active = NoCall
    /\ worker[jobId].pc = "parsed"
    /\ LET job == jobs[jobId]
           document == [documentId |-> job.documentId,
                        parserName |-> worker[jobId].parserName,
                        writtenBy |-> jobId]
       IN /\ documents' = [d \in DOMAIN documents \cup {job.documentId} |->
                              IF d \in DOMAIN documents THEN documents[d] ELSE document]
          /\ jobs' = [jobs EXCEPT ![jobId].status = "succeeded",
                                  ![jobId].completedAt = "set",
                                  ![jobId].parserName = worker[jobId].parserName]
    /\ worker' = [worker EXCEPT ![jobId] = Settled(worker[jobId].input)]
    /\ UNCHANGED <<tmpFiles, uuidSeq, active, returned, config, nonIngestVars>>

\* The rest of processJob: the document is stored, the job succeeds.
ProcessJobFinish(jobId) ==
    /\ active = NoCall
    /\ worker[jobId].pc = "parsed"
    /\ LET job == jobs[jobId]
           document == [documentId |-> job.documentId,
                        parserName |-> worker[jobId].parserName,
                        writtenBy |-> jobId]
       IN /\ documents' = [d \in DOMAIN documents \cup {job.documentId} |->
                              IF d = job.documentId THEN document ELSE documents[d]]
          /\ jobs' = [jobs EXCEPT ![jobId].status = "succeeded",
                                  ![jobId].completedAt = "set",
                                  ![jobId].parserName = worker[jobId].parserName]
    /\ worker' = [worker EXCEPT ![jobId] = Settled(worker[jobId].input)]
    /\ UNCHANGED <<tmpFiles, uuidSeq, active, returned, config, nonIngestVars>>

\* A faulty variant: the handler records the failure but loses the message.
ProcessJobCatchNoMessage(jobId) ==
    /\ active = NoCall
    /\ worker[jobId].pc = "rejected"
    /\ jobs' = [jobs EXCEPT ![jobId].status = "failed", ![jobId].completedAt = "set"]
    /\ worker' = [worker EXCEPT ![jobId] = Settled(worker[jobId].input)]
    /\ UNCHANGED <<documents, tmpFiles, uuidSeq, active, returned, config, nonIngestVars>>

\* A faulty variant: the handler swallows the rejection and leaves the job
\* as it was.
ProcessJobCatchSwallow(jobId) ==
    /\ active = NoCall
    /\ worker[jobId].pc = "rejected"
    /\ worker' = [worker EXCEPT ![jobId] = Settled(worker[jobId].input)]
    /\ UNCHANGED <<jobs, documents, tmpFiles, uuidSeq, active, returned, config, nonIngestVars>>

\* The .catch handler enqueueIngestion attaches to processJob.
ProcessJobCatch(jobId) ==
    /\ active = NoCall
    /\ worker[jobId].pc = "rejected"
    /\ IF jobId \notin DOMAIN jobs
       THEN UNCHANGED jobs
       ELSE jobs' = [jobs EXCEPT ![jobId].status = "failed",
                                 ![jobId].completedAt = "set",
                                 ![jobId].error = worker[jobId].thrown]
    /\ worker' = [worker EXCEPT ![jobId] = Settled(worker[jobId].input)]
    /\ UNCHANGED <<documents, tmpFiles, uuidSeq, active, returned, config, nonIngestVars>>

\* getJob: the record, or JobNotFoundError.
getJob(jobId) ==
    IF jobId \in DOMAIN jobs
    THEN [threw |-> FALSE, job |-> jobs[jobId]]
    ELSE [threw |-> TRUE, job |-> NULL]

NextIngest ==
    \/ \E input \in IngestInputs : EnqueueIngestion(input)
    \/ \E jobId \in DOMAIN worker : ProcessJobStart(jobId)
    \/ \E jobId \in DOMAIN worker : EnqueueReturn(jobId)
    \/ \E jobId \in DOMAIN worker : ResolveSource(jobId)
    \/ \E jobId \in DOMAIN worker : ObtainPdfFile(jobId)
    \/ \E jobId \in DOMAIN worker : ParseSourcePdf(jobId)
    \/ \E jobId \in DOMAIN worker : ProcessJobFinish(jobId)
    \/ \E jobId \in DOMAIN worker : ProcessJobCatch(jobId)

\* Ingestion runs: the service as constructed, under every configuration of
\* the PDF switches and the GROBID endpoint; no HTTP traffic.
InitIngestRun ==
    /\ InitIngest
    /\ InitHttp
    /\ InitTools
    /\ InitGraph
    /\ \E remote, local \in BOOLEAN, grobid \in {NULL, "http://grobid"} :
         config = [DefaultConfig EXCEPT !.researchAllowRemotePdfs = remote,
                                        !.researchAllowLocalPdfs = local,
                                        !.researchGrobidUrl = grobid]

SpecIngest == InitIngestRun /\ [][NextIngest]_vars

\* The draws of randomUUID() a run can make: at most two for each job.
MaxDraws == 2 * MaxJobs

\* The draw of randomUUID() that went into the id of the job.
jobDraw(jobId) ==
    CHOOSE n \in 1 .. MaxDraws : jobId.seed[Len(jobId.seed)] = RandomUuid(n)

\* One step of the processing of a job: the synchronous part of its
\* enqueueIngestion call, or the continuation after one of its awaits.
JobStep(jobId) ==
    \/ ProcessJobStart(jobId)
    \/ EnqueueReturn(jobId)
    \/ ResolveSource(jobId)
    \/ ObtainPdfFile(jobId)
    \/ ParseSourcePdf(jobId)
    \/ ProcessJobFinish(jobId)
    \/ ProcessJobCatch(jobId)

\* The inputs of the fair runs: the default parse mode, every combination of
\* the remote sources, and the local PDF alone.
LiveInputs ==
    { i \in IngestInputs :
        /\ i.parseMode = "auto"
        /\ \/ i.localPdfPath = NULL
           \/ (i.doi = NULL /\ i.paperUrl = NULL /\ i.pdfUrl = NULL) }

NextIngestLive ==
    \/ \E input \in LiveInputs : EnqueueIngestion(input)
    \/ \E jobId \in DOMAIN worker : ProcessJobStart(jobId)
    \/ \E jobId \in DOMAIN worker : EnqueueReturn(jobId)
    \/ \E jobId \in DOMAIN worker : ResolveSource(jobId)
    \/ \E jobId \in DOMAIN worker : ObtainPdfFile(jobId)
    \/ \E jobId \in DOMAIN worker : ParseSourcePdf(jobId)
    \/ \E jobId \in DOMAIN worker : ProcessJobFinish(jobId)
    \/ \E jobId \in DOMAIN worker : ProcessJobCatch(jobId)

\* Ingestion runs in which the event loop runs every continuation that is
\* ready and every awaited call (DOI resolution, landing-page fetch, PDF
\* download, parser) returns or throws: weak fairness for each job apart.
SpecIngestLive ==
    /\ InitIngestRun
    /\ [][NextIngestLive]_vars
    /\ \A n \in 1 .. MaxDraws :
         WF_vars(\E jobId \in DOMAIN worker : jobDraw(jobId) = n /\ JobStep(jobId))

-----------------------------------------------------------------------------
(* createScholarMcpServer: the tool handlers *)

\* The tools of the catalog whose core is called and awaited without a look
\* at the ingestion tables.
CoreTools ==
    {"search_literature_graph", "extract_granular_paper_details",
     "suggest_contextual_citations", "build_reference_list",
     "validate_manuscript_citations", "search_google_scholar_key_words",
     "search_google_scholar_advanced", "get_author_info"}

\* The error classes with the classes each one is an instance of.
ErrorClasses ==
    [Error |-> {"Error"},
     ScholarError |-> {"ScholarError", "Error"},
     ScholarFetchError |-> {"ScholarFetchError", "ScholarError", "Error"},
     ScholarBlockedError |-> {"ScholarBlockedError", "ScholarFetchError", "ScholarError", "Error"},
     ScholarParseError |-> {"ScholarParseError", "ScholarError", "Error"},
     ResearchError |-> {"ResearchError", "Error"},
     ResearchProviderError |-> {"ResearchProviderError", "ResearchError", "Error"},
     IngestionError |-> {"IngestionError", "ResearchError", "Error"},
     DocumentNotFoundError |-> {"DocumentNotFoundError", "ResearchError", "Error"},
     JobNotFoundError |-> {"JobNotFoundError", "ResearchError", "Error"},
     TypeError |-> {"TypeError", "Error"},
     SyntaxError |-> {"SyntaxError", "Error"},
     AbortError |-> {"AbortError", "DOMException", "Error"}]

\* new <name>(message, details): details is the set of the <<key, value>>
\* pairs of the details object, empty when the constructor is given none.
NewError(name, message, details) ==
    [name |-> name, instanceOf |-> ErrorClasses[name], message |-> message, details |-> details]

\* The try block of a handler ran to its return statement.
Returns == [name |-> NULL, instanceOf |-> {}, message |-> "returns", details |-> {}]

\* A thrown value that is not an Error.
ThrownString == [name |-> NULL, instanceOf |-> {}, message |-> "a string", details |-> {}]

DocumentNotFoundError(documentId) ==
    NewError("DocumentNotFoundError", "Document not found: " \o ToString(documentId),
             {<<"documentId", ToString(documentId)>>})

JobNotFoundError(jobId) ==
    NewError("JobNotFoundError", "Ingestion job not found: " \o ToString(jobId),
             {<<"jobId", ToString(jobId)>>})

\* What the core of a tool may throw: the errors the Scholar client and
\* service raise, those of the research services, and the handler's own
\* complaint about its arguments.
CoreThrows(tool) ==
    IF tool \in {"search_google_scholar_key_words", "search_google_scholar_advanced",
                 "get_author_info"}
    THEN { NewError("ScholarFetchError", "Google Scholar returned HTTP 429",
                    {<<"statusText", "Too Many Requests">>}),
           NewError("ScholarBlockedError", "Google Scholar blocked or challenged this request.", {}),
           NewError("ScholarParseError", "Unable to discover a Google Scholar profile.", {}) }
    ELSE IF tool = "extract_granular_paper_details"
    THEN { DocumentNotFoundError([prefix |-> "doc", seed |-> <<"unknown">>]) }
    ELSE IF tool = "build_reference_list"
    THEN { NewError("Error", "Provide either manuscript_text or works.", {}), ThrownString }
    ELSE { NewError("Error", "fetch failed", {}) }

toToolError(error) ==
    IF "ScholarError" \in error.instanceOf
    THEN [isError |-> TRUE,
          text |-> error.message,
          structuredContent |-> [error |-> error.name, message |-> error.message,
                                 details |-> error.details]]
    ELSE IF "Error" \in error.instanceOf
    THEN [isError |-> TRUE,
          text |-> error.message,
          structuredContent |-> [error |-> error.name, message |-> error.message]]
    ELSE [isError |-> TRUE,
          text |-> "Unknown ScholarMCP error.",
          structuredContent |-> [error |-> "UnknownError", message |-> "Unknown ScholarMCP error."]]

\* A faulty variant: a handler without its catch clause.
settleHandlerNoCatch(thrown, payload) ==
    IF thrown = Returns
    THEN [promise |-> "fulfilled", value |-> [isError |-> FALSE, structuredContent |-> payload]]
    ELSE [promise |-> "rejected", value |-> thrown]

\* try { ... return {content, structuredContent} } catch (error) { return
\* toToolError(error) }: how the promise of a handler settles when its try
\* block threw thrown or, with thrown = Returns, built payload.
settleHandler(thrown, payload) ==
    IF thrown = Returns
    THEN [promise |-> "fulfilled", value |-> [isError |-> FALSE, structuredContent |-> payload]]
    ELSE [promise |-> "fulfilled", value |-> toToolError(thrown)]

\* A handler that calls a core operation which answers or throws.
CallCoreTool(tool, thrown) ==
    /\ lastToolCall' = [tool |-> tool, args |-> NULL, thrown |-> thrown,
                        settled |-> settleHandler(thrown, "result")]
    /\ UNCHANGED <<ingestVars, config, httpVars, graphVars, applied, fetcher>>

\* The arguments of ingest_paper_fulltext in the tool runs: no source at all,
\* an empty DOI, a local file, a direct PDF URL.
IngestToolArgs ==
    { [doi |-> d, paper_url |-> NULL, pdf_url |-> u, local_pdf_path |-> l, parse_mode |-> "auto"] :
        d \in {NULL, ""}, u \in {NULL, "https://host/direct.pdf"}, l \in {NULL, "/data/local.pdf"} }

\* A faulty variant: the handler queues whatever it is given.
IngestPaperFulltextUnchecked(args) ==
    EnqueueIngestion([doi |-> args.doi, paperUrl |-> args.paper_url, pdfUrl |-> args.pdf_url,
                      localPdfPath |-> args.local_pdf_path, parseMode |-> args.parse_mode])

\* The ingest_paper_fulltext handler: without a source it throws and returns
\* the tool error; otherwise researchService.ingestPaperFullText, which is
\* enqueueIngestion (the job it returns is the handler's payload).
IngestPaperFulltext(args) ==
    IF ~Truthy(args.doi) /\ ~Truthy(args.paper_url) /\ ~Truthy(args.pdf_url)
       /\ ~Truthy(args.local_pdf_path)
    THEN /\ active = NoCall
         /\ lastToolCall' =
              LET thrown == NewError("Error",
                              "Provide at least one source: doi, paper_url, pdf_url, or local_pdf_path.",
                              {})
              IN [tool |-> "ingest_paper_fulltext", args |-> args, thrown |-> thrown,
                  settled |-> settleHandler(thrown, NULL)]
         /\ UNCHANGED <<ingestVars, config, httpVars, graphVars, applied, fetcher>>
    ELSE EnqueueIngestion([doi |-> args.doi, paperUrl |-> args.paper_url, pdfUrl |-> args.pdf_url,
                           localPdfPath |-> args.local_pdf_path, parseMode |-> args.parse_mode])

\* getDocument: the record, or DocumentNotFoundError.
getDocument(documentId) ==
    IF documentId \in DOMAIN documents
    THEN [threw |-> FALSE, document |-> documents[documentId]]
    ELSE [threw |-> TRUE, document |-> NULL]

UnknownJobId == [prefix |-> "job", seed |-> <<"unknown">>]

\* The get_ingestion_status handler: the job, with the summary of its
\* document when it has succeeded.
GetIngestionStatus(job_id) ==
    /\ active = NoCall
    /\ LET found == getJob(job_id)
           summarised == ~found.threw /\ found.job.status = "succeeded"
           document == getDocument(found.job.documentId)
           thrown == IF found.threw THEN JobNotFoundError(job_id)
                     ELSE IF summarised /\ document.threw
                     THEN DocumentNotFoundError(found.job.documentId)
                     ELSE Returns
           payload == IF thrown # Returns THEN NULL
                      ELSE IF summarised
                      THEN [job |-> found.job,
                            document_summary |-> [documentId |-> document.document.documentId,
                                                  parser |-> document.document.parserName]]
                      ELSE [job |-> found.job]
       IN lastToolCall' = [tool |-> "get_ingestion_status", args |-> [job_id |-> job_id],
                           thrown |-> thrown, settled |-> settleHandler(thrown, payload)]
    /\ UNCHANGED <<ingestVars, config, httpVars, graphVars, applied, fetcher>>

NextTools ==
    \/ \E tool \in CoreTools : \E thrown \in {Returns} \cup CoreThrows(tool) : CallCoreTool(tool, thrown)
    \/ \E args \in IngestToolArgs : IngestPaperFulltext(args)
    \/ \E job_id \in DOMAIN jobs \cup {UnknownJobId} : GetIngestionStatus(job_id)
    \/ \E jobId \in DOMAIN worker : ProcessJobStart(jobId)
    \/ \E jobId \in DOMAIN worker : EnqueueReturn(jobId)
    \/ \E jobId \in DOMAIN worker : ResolveSource(jobId)
    \/ \E jobId \in DOMAIN worker : ObtainPdfFile(jobId)
    \/ \E jobId \in DOMAIN worker : ParseSourcePdf(jobId)
    \/ \E jobId \in DOMAIN worker : ProcessJobFinish(jobId)
    \/ \E jobId \in DOMAIN worker : ProcessJobCatch(jobId)

\* Tool runs: a server over the services as constructed, default configuration.
InitToolsRun ==
    /\ InitIngest
    /\ InitHttp
    /\ InitTools
    /\ InitGraph
    /\ config = DefaultConfig

SpecTools == InitToolsRun /\ [][NextTools]_vars

-----------------------------------------------------------------------------
(* createHttpApp: the session manager *)

SessionId(n) == "s" \o ToString(n)

SessionIds(table) == { table[i].sessionId : i \in DOMAIN table }

\* sessions.get(sessionId) !== undefined
HasSession(table, sessionId) == sessionId \in SessionIds(table)

\* A faulty variant: the comparison taken the wrong way round.
isStaleReversed(runtime, now) == runtime.lastSeenAt - now > config.httpSessionTtlMs

isStale(runtime, now) == now - runtime.lastSeenAt > config.httpSessionTtlMs

\* The table after sessions.delete(id) for every id of ids.
DeleteSessions(table, ids) ==
    LET keep(runtime) == runtime.sessionId \notin ids
    IN SelectSeq(table, keep)

\* A faulty variant: the close actions run for an id whether or not the table
\* still holds it.
CloseSessionsUnchecked(ids, closeTransport) ==
    /\ sessions' = DeleteSessions(sessions, ids)
    /\ closes' = [id \in DOMAIN closes |->
                    IF id \in ids THEN closes[id] + 1 ELSE closes[id]]
    /\ transportCloses' = [id \in DOMAIN transportCloses |->
                             IF id \in ids /\ closeTransport
                             THEN transportCloses[id] + 1 ELSE transportCloses[id]]

\* closeSession(id, reason, closeTransport) for every id of ids: an id the
\* table does not hold returns false; the entry of one it holds is deleted
\* before the first await, then transport.close() runs if closeTransport is
\* set, and closeServer() runs.
CloseSessions(ids, closeTransport) ==
    /\ sessions' = DeleteSessions(sessions, ids)
    /\ closes' = [id \in DOMAIN closes |->
                    IF id \in ids /\ HasSession(sessions, id) THEN closes[id] + 1 ELSE closes[id]]
    /\ transportCloses' = [id \in DOMAIN transportCloses |->
                             IF id \in ids /\ HasSession(sessions, id) /\ closeTransport
                             THEN transportCloses[id] + 1 ELSE transportCloses[id]]

\* pruneExpiredSessions: the ids it finds stale at time now.
expiredSessions(table, now) ==
    IF config.httpSessionMode # "stateful" \/ Len(table) = 0
    THEN {}
    ELSE { table[i].sessionId : i \in { k \in DOMAIN table : isStale(table[k], now) } }

\* Number.POSITIVE_INFINITY, above every time stamp of a run
POSITIVE_INFINITY == 1000000

\* The loop of evictOldestSession over sessions.entries(): the first entry
\* with the smallest lastSeenAt, NULL for an empty table.
RECURSIVE oldestSession(_, _, _)
oldestSession(table, oldestSessionId, oldestSeen) ==
    IF table = <<>> THEN oldestSessionId
    ELSE IF Head(table).lastSeenAt < oldestSeen
         THEN oldestSession(Tail(table), Head(table).sessionId, Head(table).lastSeenAt)
    ELSE oldestSession(Tail(table), oldestSessionId, oldestSeen)

\* A faulty variant: among the sessions seen least recently the last one of
\* the table is taken.
evictedSessionsLastOfTies(table) ==
    IF Len(table) < config.httpMaxSessions THEN {}
    ELSE LET oldest == { i \in DOMAIN table :
                           \A k \in DOMAIN table : table[i].lastSeenAt <= table[k].lastSeenAt }
         IN { table[i].sessionId : i \in { k \in oldest : \A m \in oldest : m <= k } }

\* evictOldestSession up to its await: the ids it closes.
evictedSessions(table) ==
    IF Len(table) < config.httpMaxSessions THEN {}
    ELSE {oldestSession(table, NULL, POSITIVE_INFINITY)} \ {NULL}

Respond(r, status) ==
    reqs' = [reqs EXCEPT ![r].pc = "done", ![r].transport = NULL, ![r].status = status]

LOCAL_HOSTS == {"127.0.0.1", "localhost", "::1"}

\* normalizeHostHeader on the Host headers of the runs: trimmed and in lower
\* case (full), and that without its port (hostname).
normalizeHostHeader(hostHeader) ==
    CASE hostHeader = "localhost:3000" -> [full |-> "localhost:3000", hostname |-> "localhost"]
      [] hostHeader = "Example.com" -> [full |-> "example.com", hostname |-> "example.com"]
      [] hostHeader = "evil.test:8080" -> [full |-> "evil.test:8080", hostname |-> "evil.test"]

\* isLoopbackOrigin on the Origin headers of the runs: the host name of the
\* parsed URL is a local one; an origin that does not parse is not.
isLoopbackOrigin(origin) ==
    CASE origin = "http://localhost:5173" -> TRUE
      [] origin = "https://app.example.com" -> FALSE
      [] origin = "null" -> FALSE

isHostAllowed(hostHeader) ==
    IF hostHeader = "" THEN FALSE
    ELSE LET host == normalizeHostHeader(hostHeader)
         IN IF config.allowedHosts # {}
            THEN host.full \in config.allowedHosts \/ host.hostname \in config.allowedHosts
            ELSE IF config.host \in LOCAL_HOSTS
            THEN host.hostname \in LOCAL_HOSTS
            ELSE TRUE

isOriginAllowed(origin) ==
    IF origin = NULL THEN TRUE
    ELSE IF config.allowedOrigins # {}
    THEN origin \in config.allowedOrigins
    ELSE IF config.host \in LOCAL_HOSTS
    THEN isLoopbackOrigin(origin)
    ELSE TRUE

\* authorization.slice('Bearer '.length).trim() on the Authorization headers
\* of the runs that start with 'Bearer '; NULL for the others.
BearerToken(authorization) ==
    CASE authorization = "Bearer secret" -> "secret"
      [] authorization = "Bearer  secret " -> "secret"
      [] authorization = "Bearer wrong" -> "wrong"
      [] authorization = "Basic secret" -> NULL
      [] authorization = "bearer secret" -> NULL

isAuthorized(authorization) ==
    IF ~Truthy(config.apiKey) THEN TRUE
    ELSE IF authorization = NULL \/ BearerToken(authorization) = NULL THEN FALSE
    ELSE BearerToken(authorization) = config.apiKey

Admitted == [status |-> 0, error |-> NULL]

\* A faulty variant: the bearer token is checked first, and for every method.
admissionTokenFirst(q) ==
    IF ~isAuthorized(q.authorization)
    THEN [status |-> 401, error |-> "Unauthorized"]
    ELSE IF ~isHostAllowed(q.host)
    THEN [status |-> 403, error |-> "Forbidden host header"]
    ELSE IF ~isOriginAllowed(q.origin)
    THEN [status |-> 403, error |-> "Forbidden origin"]
    ELSE IF q.method = "OPTIONS"
    THEN [status |-> 204, error |-> NULL]
    ELSE Admitted

\* The middleware of the endpoint and the OPTIONS route behind it: the
\* response a request is given before the endpoint handler, Admitted if none.
admission(q) ==
    IF ~isHostAllowed(q.host)
    THEN [status |-> 403, error |-> "Forbidden host header"]
    ELSE IF ~isOriginAllowed(q.origin)
    THEN [status |-> 403, error |-> "Forbidden origin"]
    ELSE IF q.method # "OPTIONS" /\ ~isAuthorized(q.authorization)
    THEN [status |-> 401, error |-> "Unauthorized"]
    ELSE IF q.method = "OPTIONS"
    THEN [status |-> 204, error |-> NULL]
    ELSE Admitted

\* A faulty variant: the expired sessions are pruned before the checks of
\* the middleware.
HttpArrivePruneFirst(q, maxRequests) ==
    /\ Len(reqs) < maxRequests
    /\ LET expired == expiredSessions(sessions, clock)
       IN /\ reqs' = Append(reqs,
                 IF admission(q) # Admitted
                 THEN [pc |-> "done", expired |-> expired, oldestSessionId |-> NULL,
                       rejectedAt |-> clock, transport |-> NULL,
                       status |-> admission(q).status, error |-> admission(q).error] @@ q
                 ELSE [pc |-> IF config.httpSessionMode = "stateless"
                              THEN "dispatch" ELSE "lookup",
                       expired |-> expired, oldestSessionId |-> NULL, rejectedAt |-> NULL,
                       transport |-> IF config.httpSessionMode = "stateless"
                                     THEN "stateless" ELSE NULL,
                       status |-> 0, error |-> NULL] @@ q)
          /\ CloseSessions(expired, TRUE)
    /\ UNCHANGED <<sidSeq, clock, config, nonHttpVars>>

\* A request reaches the endpoint: the admission middleware, then for an
\* admitted request the endpoint handler with resolveTransport up to its
\* first await, which is createStatelessRuntime or pruneExpiredSessions.
HttpArrive(q, maxRequests) ==
    /\ Len(reqs) < maxRequests
    /\ IF admission(q) # Admitted
       THEN /\ reqs' = Append(reqs, [pc |-> "done", expired |-> {}, oldestSessionId |-> NULL,
                                     rejectedAt |-> clock,
                                     transport |-> NULL,
                                     status |-> admission(q).status,
                                     error |-> admission(q).error] @@ q)
            /\ UNCHANGED <<sessions, closes, transportCloses>>
       ELSE LET expired == expiredSessions(sessions, clock)
            IN /\ reqs' = Append(reqs, [pc |-> IF config.httpSessionMode = "stateless"
                                                 THEN "dispatch" ELSE "lookup",
                                         expired |-> expired,
                                         oldestSessionId |-> NULL,
                                         rejectedAt |-> NULL,
                                         transport |-> IF config.httpSessionMode = "stateless"
                                                       THEN "stateless" ELSE NULL,
                                         status |-> 0, error |-> NULL] @@ q)
               /\ CloseSessions(expired, TRUE)
    /\ UNCHANGED <<sidSeq, clock, config, nonHttpVars>>

\* A faulty variant: the lookup of a known session id refreshes every session
\* of the table.
HttpLookupRefreshAll(r) ==
    /\ reqs[r].pc = "lookup"
    /\ IF reqs[r].sid # NULL
       THEN IF ~HasSession(sessions, reqs[r].sid)
            THEN /\ Respond(r, 404)
                 /\ UNCHANGED sessions
            ELSE /\ sessions' = [i \in DOMAIN sessions |->
                                   [sessions[i] EXCEPT !.lastSeenAt = clock]]
                 /\ reqs' = [reqs EXCEPT ![r].pc = "dispatch", ![r].transport = reqs[r].sid]
       ELSE /\ IF reqs[r].method # "POST"
               THEN Respond(r, 400)
               ELSE reqs' = [reqs EXCEPT ![r].pc = "json"]
            /\ UNCHANGED sessions
    /\ UNCHANGED <<closes, transportCloses, sidSeq, clock, config, nonHttpVars>>

\* resolveTransport after the prune: the session id header is looked up, or
\* the request must be a POST.
HttpLookup(r) ==
    /\ reqs[r].pc = "lookup"
    /\ IF reqs[r].sid # NULL
       THEN IF ~HasSession(sessions, reqs[r].sid)
            THEN /\ Respond(r, 404)
                 /\ UNCHANGED sessions
            ELSE /\ sessions' = [i \in DOMAIN sessions |->
                                   IF sessions[i].sessionId = reqs[r].sid
                                   THEN [sessions[i] EXCEPT !.lastSeenAt = clock]
                                   ELSE sessions[i]]
                 /\ reqs' = [reqs EXCEPT ![r].pc = "dispatch", ![r].transport = reqs[r].sid]
       ELSE /\ IF reqs[r].method # "POST"
               THEN Respond(r, 400)
               ELSE reqs' = [reqs EXCEPT ![r].pc = "json"]
            /\ UNCHANGED sessions
    /\ UNCHANGED <<closes, transportCloses, sidSeq, clock, config, nonHttpVars>>

\* A faulty variant: room for the new session is made before the body is
\* looked at.
HttpParseBodyEvictFirst(r) ==
    /\ reqs[r].pc = "json"
    /\ CloseSessions(evictedSessions(sessions), TRUE)
    /\ IF reqs[r].body # "initialize"
       THEN Respond(r, 400)
       ELSE reqs' = [reqs EXCEPT ![r].pc = "dispatch", ![r].transport = "new"]
    /\ UNCHANGED <<sidSeq, clock, config, nonHttpVars>>

\* resolveTransport after request.clone().json(): the body must be an
\* initialize request; then createSessionRuntime up to the await of
\* evictOldestSession.
HttpParseBody(r) ==
    /\ reqs[r].pc = "json"
    /\ IF reqs[r].body # "initialize"
       THEN /\ Respond(r, 400)
            /\ UNCHANGED <<sessions, closes, transportCloses>>
       ELSE /\ CloseSessions(evictedSessions(sessions), TRUE)
            /\ reqs' = [reqs EXCEPT ![r].pc = "dispatch", ![r].transport = "new",
                                    ![r].oldestSessionId =
                                      IF evictedSessions(sessions) = {} THEN NULL
                                      ELSE CHOOSE id \in evictedSessions(sessions) : TRUE]
    /\ UNCHANGED <<sidSeq, clock, config, nonHttpVars>>

\* transport.handleRequest and the finally block of the endpoint handler.
\* A new transport that accepts the initialize request runs
\* onsessioninitialized; a DELETE on a session runs onsessionclosed.
HttpDispatch(r) ==
    /\ reqs[r].pc = "dispatch"
    /\ IF reqs[r].transport = "stateless"
       THEN /\ Respond(r, 200)
            /\ UNCHANGED <<sessions, closes, transportCloses, sidSeq>>
       ELSE IF reqs[r].transport = "new"
       THEN \E initialized \in BOOLEAN :
              IF initialized
              THEN /\ sessions' = Append(sessions, [sessionId |-> SessionId(sidSeq + 1),
                                                    createdAt |-> clock, lastSeenAt |-> clock])
                   /\ closes' = (SessionId(sidSeq + 1) :> 0) @@ closes
                   /\ transportCloses' = (SessionId(sidSeq + 1) :> 0) @@ transportCloses
                   /\ sidSeq' = sidSeq + 1
                   /\ Respond(r, 200)
              ELSE /\ Respond(r, 400)
                   /\ UNCHANGED <<sessions, closes, transportCloses, sidSeq>>
       ELSE /\ IF reqs[r].method = "DELETE"
               THEN CloseSessions({reqs[r].transport}, FALSE)
               ELSE UNCHANGED <<sessions, closes, transportCloses>>
            /\ Respond(r, 200)
            /\ UNCHANGED sidSeq
    /\ UNCHANGED <<clock, config, nonHttpVars>>

\* Time passes.
Tick ==
    /\ clock < MaxClock
    /\ clock' = clock + 1
    /\ UNCHANGED <<sessions, closes, transportCloses, reqs, sidSeq, config, nonHttpVars>>

\* The requests a client can send: with the id of a session it was given, an
\* id the server never issued, or none; a body matters to a POST without id.
\* They come from the local host, without Origin or Authorization header.
HttpRequests ==
    { q \in [method : {"GET", "POST", "DELETE"},
             sid : {NULL, "bogus"} \cup DOMAIN closes,
             body : {"none", "initialize", "other", "invalid"},
             host : {"localhost:3000"}, origin : {NULL}, authorization : {NULL}] :
        (q.body = "none") <=> ~(q.method = "POST" /\ q.sid = NULL) }

NextHttp ==
    \/ \E q \in HttpRequests : HttpArrive(q, MaxRequests)
    \/ \E r \in DOMAIN reqs : HttpLookup(r)
    \/ \E r \in DOMAIN reqs : HttpParseBody(r)
    \/ \E r \in DOMAIN reqs : HttpDispatch(r)
    \/ Tick

\* shutdown() of the object createHttpApp returns: closeSession for every
\* key of the table.  The app stays callable, so requests in flight go on.
Shutdown ==
    /\ sessions # <<>>
    /\ CloseSessions(SessionIds(sessions), TRUE)
    /\ UNCHANGED <<reqs, sidSeq, clock, config, nonHttpVars>>

\* HTTP runs: an empty session table, in either session mode; no ingestion.
InitHttpRun ==
    /\ InitHttp
    /\ InitIngest
    /\ InitTools
    /\ InitGraph
    /\ \E mode \in {"stateful", "stateless"} :
         config = [DefaultConfig EXCEPT !.httpSessionMode = mode]

SpecHttp == InitHttpRun /\ [][NextHttp]_vars

\* The session manager with its shutdown.
NextSessions ==
    \/ \E q \in HttpRequests : HttpArrive(q, MaxRequests)
    \/ \E r \in DOMAIN reqs : HttpLookup(r)
    \/ \E r \in DOMAIN reqs : HttpParseBody(r)
    \/ \E r \in DOMAIN reqs : HttpDispatch(r)
    \/ Shutdown
    \/ Tick

\* Runs in stateful mode, from an empty session table, with room for one
\* session or for MaxSessions.
InitSessionsRun ==
    /\ InitHttp
    /\ InitIngest
    /\ InitTools
    /\ InitGraph
    /\ \E max \in {1, MaxSessions} :
         config = [DefaultConfig EXCEPT !.httpMaxSessions = max]

SpecSessions == InitSessionsRun /\ [][NextSessions]_vars

\* The requests of the admission runs: initializations and preflights with
\* every combination of Host, Origin and Authorization header.
AdmitRequests ==
    { q \in [method : {"POST", "OPTIONS"},
             sid : {NULL},
             body : {"none", "initialize"},
             host : {"", "localhost:3000", "Example.com", "evil.test:8080"},
             origin : {NULL, "http://localhost:5173", "https://app.example.com", "null"},
             authorization : {NULL, "Bearer secret", "Bearer  secret ", "Bearer wrong",
                              "Basic secret", "bearer secret"}] :
        (q.body = "initialize") <=> (q.method = "POST") }

\* The configurations of the admission runs: the default one, bound to the
\* loopback address, with and without an API key, and one bound to every
\* address, with or without allow-lists.
AdmitConfigs ==
    { [DefaultConfig EXCEPT !.apiKey = key] : key \in {NULL, "", "secret"} }
    \cup { [DefaultConfig EXCEPT !.host = "0.0.0.0", !.apiKey = "secret"],
           [DefaultConfig EXCEPT !.host = "0.0.0.0", !.apiKey = "secret",
                                 !.allowedHosts = {"example.com"},
                                 !.allowedOrigins = {"https://app.example.com"}] }

NextAdmit ==
    \/ \E q \in AdmitRequests : HttpArrive(q, MaxAdmitRequests)
    \/ \E r \in DOMAIN reqs : HttpLookup(r)
    \/ \E r \in DOMAIN reqs : HttpParseBody(r)
    \/ \E r \in DOMAIN reqs : HttpDispatch(r)

InitAdmitRun ==
    /\ InitHttp
    /\ InitIngest
    /\ InitTools
    /\ InitGraph
    /\ config \in AdmitConfigs

SpecAdmit == InitAdmitRun /\ [][NextAdmit]_vars

\* The requests of a guarded run: with the right token from the local host,
\* or with a wrong token, a foreign Host or a foreign Origin; with the id of
\* a session the server issued or none.
GuardRequests ==
    { q \in [method : {"GET", "POST"},
             sid : {NULL} \cup DOMAIN closes,
             body : {"none", "initialize"},
             host : {"localhost:3000", "evil.test:8080"},
             origin : {NULL, "https://app.example.com"},
             authorization : {"Bearer secret", "Bearer wrong"}] :
        /\ (q.body = "initialize") <=> (q.method = "POST" /\ q.sid = NULL)
        /\ Cardinality({ x \in {"host", "origin", "authorization"} :
                           q[x] \in {"evil.test:8080", "https://app.example.com",
                                     "Bearer wrong"} }) <= 1 }

NextGuard ==
    \/ \E q \in GuardRequests : HttpArrive(q, MaxRequests)
    \/ \E r \in DOMAIN reqs : HttpLookup(r)
    \/ \E r \in DOMAIN reqs : HttpParseBody(r)
    \/ \E r \in DOMAIN reqs : HttpDispatch(r)
    \/ Tick

\* Guarded runs: stateful mode on the loopback address with an API key.
InitGuardRun ==
    /\ InitHttp
    /\ InitIngest
    /\ InitTools
    /\ InitGraph
    /\ config = [DefaultConfig EXCEPT !.apiKey = "secret"]

SpecGuard == InitGuardRun /\ [][NextGuard]_vars

-----------------------------------------------------------------------------
(* LiteratureService: values *)

\* The order in which searchGraph pushes the provider promises.
Providers == <<"openalex", "crossref", "semantic_scholar", "scholar_scrape">>

DEFAULT_SOURCES == <<"openalex", "crossref", "semantic_scholar">>

Range(seq) == { seq[i] : i \in DOMAIN seq }

Max(a, b) == IF a >= b THEN a ELSE b

Min(a, b) == IF a <= b THEN a ELSE b

\* Scores are fixed-point numbers: Unit stands for 1.0 (a multiple of 3, 4
\* and 10, so that every weight, diversity and recency used is exact).
Unit == 12000

\* A null year (no year is 0, and the code tests years by truthiness).
NoYear == 0

\* new Date().getFullYear()
CurrentYear == 2024

\* null where a reference to a result object is expected
NoRef == 0

providerWeight ==
    ("openalex" :> 12000) @@ ("crossref" :> 10800) @@
    ("semantic_scholar" :> 13200) @@ ("scholar_scrape" :> 8400)

\* Math.log10(n) / 4 in Units, on the citation counts (plus one) that occur.
Log10Quarter == (21 :> 3967) @@ (101 :> 6013) @@ (10000 :> 12000) @@ (20001 :> 12903)

scoreFromCitations(citations) ==
    IF citations <= 0 THEN 0 ELSE Min(Unit, Log10Quarter[citations + 1])

\* The strings of the runs, and what the normalisations make of them.
\* normalizeWhitespace(s).toLowerCase().replace(/[^a-z0-9\s]/g, ''):
TitleKeys ==
    ("Graph Neural Networks for Scientific Retrieval" :> "graph neural networks for scientific retrieval") @@
    ("Graph Neural Networks for Scientific Retrieval." :> "graph neural networks for scientific retrieval") @@
    ("Graph Neural Networks for Scientific Retrieval Systems" :> "graph neural networks for scientific retrieval systems") @@
    ("Transformer Baselines for Retrieval" :> "transformer baselines for retrieval") @@
    ("Deep Learning Survey" :> "deep learning survey") @@
    ("Quantum Error Correction" :> "quantum error correction") @@
    ("Protein Structure Prediction" :> "protein structure prediction")

normalizeTitleKey(title) == TitleKeys[title]

\* tokenizeForRanking: lower case, every other character to a blank, split,
\* tokens of at least three characters.
TitleTokens ==
    ("Graph Neural Networks for Scientific Retrieval" :>
        {"graph", "neural", "networks", "for", "scientific", "retrieval"}) @@
    ("Graph Neural Networks for Scientific Retrieval." :>
        {"graph", "neural", "networks", "for", "scientific", "retrieval"}) @@
    ("Graph Neural Networks for Scientific Retrieval Systems" :>
        {"graph", "neural", "networks", "for", "scientific", "retrieval", "systems"}) @@
    ("Transformer Baselines for Retrieval" :> {"transformer", "baselines", "for", "retrieval"}) @@
    ("Deep Learning Survey" :> {"deep", "learning", "survey"}) @@
    ("Quantum Error Correction" :> {"quantum", "error", "correction"}) @@
    ("Protein Structure Prediction" :> {"protein", "structure", "prediction"})

tokenSetFromTitle(title) == TitleTokens[title]

AuthorNames ==
    ("Alice Smith" :> "alice smith") @@ ("ALICE SMITH." :> "alice smith") @@
    ("Bob Lee" :> "bob lee") @@ ("Carol Jones" :> "carol jones") @@
    ("Dan Wu" :> "dan wu") @@ ("" :> "")

normalizeAuthorName(name) == AuthorNames[name]

\* doi.trim().replace(/^https?:\/\/(dx\.)?doi\.org\//i, '').toLowerCase()
DoiNames ==
    ("10.1000/d" :> "10.1000/d") @@ ("https://doi.org/10.1000/D" :> "10.1000/d")
    @@ ("10.1000/e" :> "10.1000/e") @@ ("10.1000/D" :> "10.1000/d")

normalizeDoi(doi) == IF ~Truthy(doi) THEN NULL ELSE DoiNames[doi]

\* field.trim().toLowerCase()
FieldNames ==
    ("Computer Science" :> "computer science") @@ (" computer science" :> "computer science") @@
    ("Biology" :> "biology") @@ ("biology" :> "biology")

\* normalizeWhitespace(query).toLowerCase()
QueryNames ==
    ("scientific retrieval" :> "scientific retrieval") @@
    ("Scientific  Retrieval" :> "scientific retrieval") @@
    ("graph learning" :> "graph learning")

\* Array.prototype.sort() on strings: the strings of the runs in code-unit order.
Alphabetical ==
    <<"biology", "computer science", "crossref", "openalex", "scholar_scrape", "semantic_scholar">>

\* The similarity of two token sets as the fraction overlap / union.
setJaccard(a, b) ==
    IF Cardinality(a) = 0 \/ Cardinality(b) = 0
    THEN [num |-> 0, den |-> 1]
    ELSE LET overlap == Cardinality(a \cap b)
         IN [num |-> overlap, den |-> Cardinality(a) + Cardinality(b) - overlap]

\* x > y and x >= t/100 on such fractions
FractionGreater(x, y) == x.num * y.den > y.num * x.den

FractionAtLeast(x, hundredths) == x.num * 100 >= hundredths * x.den

RECURSIVE mergeFields(_, _)
mergeFields(current, incoming) ==
    IF incoming = <<>> THEN current
    ELSE IF Truthy(Head(incoming)) /\ Head(incoming) \notin Range(current)
    THEN mergeFields(Append(current, Head(incoming)), Tail(incoming))
    ELSE mergeFields(current, Tail(incoming))

\* range is <<>> when the input has no yearRange
isWithinYearRange(year, range) ==
    IF range = <<>> \/ year = NoYear THEN TRUE
    ELSE year >= range[1] /\ year <= range[2]

matchesFieldOfStudy(work, requestedFields) ==
    IF Len(requestedFields) = 0 THEN TRUE
    ELSE LET normalized == { FieldNames[work.fieldsOfStudy[i]] : i \in DOMAIN work.fieldsOfStudy }
         IN \E i \in DOMAIN requestedFields : FieldNames[requestedFields[i]] \in normalized

yearsCompatible(a, b) ==
    a = NoYear \/ b = NoYear \/ (IF a >= b THEN a - b ELSE b - a) <= 2

sharesAuthorSignal(left, right) ==
    IF Len(left) = 0 \/ Len(right) = 0 THEN TRUE
    ELSE LET leftIds == { left[i].authorId : i \in { j \in DOMAIN left : Truthy(left[j].authorId) } }
             leftNames == { normalizeAuthorName(left[i].name) :
                              i \in { j \in DOMAIN left : normalizeAuthorName(left[j].name) # "" } }
         IN \/ /\ leftIds # {}
               /\ \E i \in DOMAIN right : Truthy(right[i].authorId) /\ right[i].authorId \in leftIds
            \/ \E i \in DOMAIN right : normalizeAuthorName(right[i].name) \in leftNames

-----------------------------------------------------------------------------
(* LiteratureService: the provider works of the runs *)

NoIds == [k \in {} |-> ""]

\* makeWork of the service's test: one record of an adapter's answer.
BaseWork ==
    [provider |-> "openalex", providerId |-> "openalex:1",
     title |-> "Graph Neural Networks for Scientific Retrieval",
     abstract |-> "A retrieval approach for scientific corpora.",
     year |-> 2023, venue |-> "TestConf", doi |-> NULL,
     url |-> "https://example.org/paper-1",
     citationCount |-> 100, influentialCitationCount |-> 10, referenceCount |-> 40,
     authors |-> <<[name |-> "Alice Smith", authorId |-> "A1"]>>,
     openAccess |-> [isOpenAccess |-> TRUE, pdfUrl |-> "https://example.org/paper-1.pdf",
                     license |-> "cc-by"],
     externalIds |-> NoIds, fieldsOfStudy |-> <<"Computer Science">>,
     score |-> 10800, sourceUrl |-> "https://provider.example.org"]

makeWork(overrides) == overrides @@ BaseWork

\* openalex: the test's work; a work with a DOI and another title; two
\* heavily cited works that differ in nothing the score depends on.
Openalex1 == makeWork([provider |-> "openalex", providerId |-> "openalex:1"])

Openalex2 ==
    makeWork([providerId |-> "openalex:2", title |-> "Deep Learning Survey",
              doi |-> "10.1000/d", externalIds |-> [doi |-> "10.1000/d"],
              abstract |-> NULL, citationCount |-> 20, referenceCount |-> 0])

Openalex3 ==
    makeWork([providerId |-> "openalex:3", title |-> "Quantum Error Correction",
              authors |-> <<[name |-> "Dan Wu", authorId |-> "D1"]>>,
              citationCount |-> 9999, fieldsOfStudy |-> <<"Biology">>])

Openalex4 ==
    makeWork([providerId |-> "openalex:4", title |-> "Protein Structure Prediction",
              authors |-> <<[name |-> "Dan Wu", authorId |-> "D1"]>>,
              citationCount |-> 20000, fieldsOfStudy |-> <<"Biology">>])

\* crossref: the test's work (trailing period, a year later); the DOI of
\* Openalex2 in URL form under the first title; the first title by another
\* author; the first title four years earlier.
Crossref1 ==
    makeWork([provider |-> "crossref", providerId |-> "crossref:1",
              title |-> "Graph Neural Networks for Scientific Retrieval.",
              year |-> 2024, score |-> 8400])

Crossref2 ==
    makeWork([provider |-> "crossref", providerId |-> "crossref:2",
              doi |-> "https://doi.org/10.1000/D",
              externalIds |-> [doi |-> "10.1000/D", issn |-> "1234-5678"],
              citationCount |-> 0, influentialCitationCount |-> 20, score |-> 8400])

Crossref3 ==
    makeWork([provider |-> "crossref", providerId |-> "crossref:3",
              authors |-> <<[name |-> "Carol Jones", authorId |-> "C1"]>>, score |-> 8400])

Crossref4 ==
    makeWork([provider |-> "crossref", providerId |-> "crossref:4",
              year |-> 2019, score |-> 8400])

\* semantic_scholar: the test's unrelated work; the first title without DOI,
\* year or author id; a longer title without authors.
Semantic1 ==
    makeWork([provider |-> "semantic_scholar", providerId |-> "semantic:1",
              title |-> "Transformer Baselines for Retrieval", year |-> 2022,
              authors |-> <<[name |-> "Bob Lee", authorId |-> "B1"]>>,
              citationCount |-> 20, score |-> 7200])

Semantic2 ==
    makeWork([provider |-> "semantic_scholar", providerId |-> "semantic:2",
              year |-> NoYear, authors |-> <<[name |-> "ALICE SMITH.", authorId |-> NULL]>>,
              citationCount |-> 20, score |-> 7200])

Semantic3 ==
    makeWork([provider |-> "semantic_scholar", providerId |-> "semantic:3",
              title |-> "Graph Neural Networks for Scientific Retrieval Systems",
              authors |-> <<>>, citationCount |-> 0, score |-> 7200])

\* The first title under a DOI of its own.
Semantic4 ==
    makeWork([provider |-> "semantic_scholar", providerId |-> "semantic:4",
              doi |-> "10.1000/e", externalIds |-> [doi |-> "10.1000/e"],
              citationCount |-> 20, score |-> 7200])

\* searchWithScholarScrape maps a scraped paper to such a record.
Scholar1 ==
    makeWork([provider |-> "scholar_scrape", providerId |-> "https://example.org/paper-9",
              title |-> "Transformer Baselines for Retrieval", year |-> 2022,
              venue |-> NULL, url |-> "https://example.org/paper-9",
              authors |-> <<[name |-> "Bob Lee", authorId |-> NULL]>>,
              citationCount |-> 20, influentialCitationCount |-> 0, referenceCount |-> 0,
              openAccess |-> [isOpenAccess |-> FALSE, pdfUrl |-> NULL, license |-> NULL],
              fieldsOfStudy |-> <<>>, score |-> 4800,
              sourceUrl |-> "https://scholar.google.com/scholar"])

\* What an adapter answers: it rejects with a message, or resolves with works.
Rejects(message) == [fails |-> TRUE, message |-> message, works |-> <<>>]

Resolves(works) == [fails |-> FALSE, message |-> "", works |-> works]

\* The adapters of a merge run: every provider with each of its answers.
MergeAdapters ==
    { ("openalex" :> o) @@ ("crossref" :> c) @@ ("semantic_scholar" :> s) @@
      ("scholar_scrape" :> Resolves(<<Scholar1>>)) :
        o \in { Rejects("HTTP 503"), Resolves(<<>>), Resolves(<<Openalex1>>),
                Resolves(<<Openalex2>>), Resolves(<<Openalex3, Openalex4>>) },
        c \in { Rejects("timeout"), Resolves(<<Crossref1>>), Resolves(<<Crossref2>>),
                Resolves(<<Crossref3>>), Resolves(<<Crossref4>>),
                Resolves(<<Crossref2, Crossref1>>) },
        s \in { Rejects("HTTP 503"), Resolves(<<Semantic1>>), Resolves(<<Semantic2>>),
                Resolves(<<Semantic3>>), Resolves(<<Semantic4>>),
                Resolves(<<Semantic1, Semantic2>>) } }

\* The adapters of a cache run: openalex rejects, the others answer as in
\* the service's test.
CacheAdapters ==
    { ("openalex" :> Rejects("HTTP 503")) @@ ("crossref" :> Resolves(<<Crossref1>>)) @@
      ("semantic_scholar" :> Resolves(<<Semantic1>>)) @@
      ("scholar_scrape" :> Resolves(<<Scholar1>>)) }

\* LiteratureSearchInput: sources and fieldsOfStudy are <<>> when absent,
\* yearRange likewise.
SearchInput(query, limit, yearRange, fieldsOfStudy, sources) ==
    [query |-> query, limit |-> limit, yearRange |-> yearRange,
     fieldsOfStudy |-> fieldsOfStudy, sources |-> sources]

MergeInputs ==
    { SearchInput("scientific retrieval", limit, <<>>, <<>>, <<>>) : limit \in 1..3 }
    \cup { SearchInput("scientific retrieval", 2, <<2023, 2024>>, <<>>, <<>>),
           SearchInput("scientific retrieval", 2, <<>>, <<" computer science">>, <<>>),
           SearchInput("scientific retrieval", 3, <<>>, <<>>, <<"scholar_scrape", "semantic_scholar">>) }

CacheInputs ==
    { SearchInput("scientific retrieval", 2, <<>>, <<>>, <<"openalex", "crossref">>),
      SearchInput("Scientific  Retrieval", 2, <<>>, <<>>, <<"crossref", "openalex", "crossref">>),
      SearchInput("graph learning", 2, <<>>, <<>>, <<"openalex">>) }

-----------------------------------------------------------------------------
(* LiteratureService: merging and ranking *)

\* A JavaScript Map as the sequence of its entries in insertion order.
MapHas(map, key) == \E i \in DOMAIN map : map[i].key = key

MapGet(map, key) == map[CHOOSE i \in DOMAIN map : map[i].key = key].value

MapSet(map, key, value) ==
    IF MapHas(map, key)
    THEN [i \in DOMAIN map |-> IF map[i].key = key THEN [key |-> key, value |-> value] ELSE map[i]]
    ELSE Append(map, [key |-> key, value |-> value])

MapDelete(map, key) == SelectSeq(map, LAMBDA entry : entry.key # key)

\* merged, doiToKey and titleToKeys before the first work; targets lists
\* what resolveTargetKey answered for each work folded so far.
EmptyMerge == [merged |-> <<>>, doiToKey |-> <<>>, titleToKeys |-> <<>>, targets |-> <<>>]

indexTitle(titleToKeys, titleKey, key) ==
    LET existing == IF MapHas(titleToKeys, titleKey) THEN MapGet(titleToKeys, titleKey) ELSE <<>>
    IN MapSet(titleToKeys, titleKey,
              IF key \in Range(existing) THEN existing ELSE Append(existing, key))

NoMatch == [key |-> NULL, similarity |-> [num |-> 0, den |-> 1]]

\* The loop over merged.entries() of resolveTargetKey, from entry i on.
RECURSIVE bestFuzzy(_, _, _, _)
bestFuzzy(merged, work, i, best) ==
    IF i > Len(merged) THEN best
    ELSE LET candidate == merged[i].value
             similarity == setJaccard(tokenSetFromTitle(candidate.title),
                                      tokenSetFromTitle(work.title))
         IN IF /\ yearsCompatible(candidate.year, work.year)
               /\ sharesAuthorSignal(candidate.authors, work.authors)
               /\ FractionGreater(similarity, best.similarity)
            THEN bestFuzzy(merged, work, i + 1, [key |-> merged[i].key, similarity |-> similarity])
            ELSE bestFuzzy(merged, work, i + 1, best)

\* A faulty variant: the DOI index is not consulted.
resolveTargetKeyByTitleOnly(st, work) ==
    LET titleKey == normalizeTitleKey(work.title)
        exactCandidateKeys ==
            IF MapHas(st.titleToKeys, titleKey) THEN MapGet(st.titleToKeys, titleKey) ELSE <<>>
        exact == SelectSeq(exactCandidateKeys, LAMBDA key :
                    /\ MapHas(st.merged, key)
                    /\ yearsCompatible(MapGet(st.merged, key).year, work.year)
                    /\ sharesAuthorSignal(MapGet(st.merged, key).authors, work.authors))
        best == bestFuzzy(st.merged, work, 1, NoMatch)
    IN IF exact # <<>> THEN Head(exact)
       ELSE IF best.key # NULL
               /\ FractionAtLeast(best.similarity, config.researchGraphFuzzyTitleThreshold)
       THEN best.key
       ELSE NULL

resolveTargetKey(st, work) ==
    LET normalizedDoi == normalizeDoi(work.doi)
        titleKey == normalizeTitleKey(work.title)
        exactCandidateKeys ==
            IF MapHas(st.titleToKeys, titleKey) THEN MapGet(st.titleToKeys, titleKey) ELSE <<>>
        exact == SelectSeq(exactCandidateKeys, LAMBDA key :
                    /\ MapHas(st.merged, key)
                    /\ yearsCompatible(MapGet(st.merged, key).year, work.year)
                    /\ sharesAuthorSignal(MapGet(st.merged, key).authors, work.authors))
        best == bestFuzzy(st.merged, work, 1, NoMatch)
    IN IF normalizedDoi # NULL /\ MapHas(st.doiToKey, normalizedDoi)
       THEN MapGet(st.doiToKey, normalizedDoi)
       ELSE IF exact # <<>> THEN Head(exact)
       ELSE IF best.key # NULL
               /\ FractionAtLeast(best.similarity, config.researchGraphFuzzyTitleThreshold)
       THEN best.key
       ELSE NULL

\* One ProvenanceRecord; fetchedAt is the clock reading of the merge.
provenanceOf(work, now) ==
    [provider |-> work.provider, sourceUrl |-> work.sourceUrl, fetchedAt |-> now,
     confidence |-> providerWeight[work.provider]]

\* 0.6 * score + 0.3 * citation score + 0.1 * confidence, in tenths of a Unit
relevanceScore(work) ==
    6 * work.score + 3 * scoreFromCitations(work.citationCount) + providerWeight[work.provider]

\* The canonical work built from a provider work alone.
newCanonical(work, now) ==
    [title |-> work.title, abstract |-> work.abstract, year |-> work.year,
     venue |-> work.venue, doi |-> normalizeDoi(work.doi), url |-> work.url,
     paperId |-> work.providerId, citationCount |-> work.citationCount,
     influentialCitationCount |-> work.influentialCitationCount,
     referenceCount |-> work.referenceCount, authors |-> work.authors,
     openAccess |-> [isOpenAccess |-> work.openAccess.isOpenAccess,
                     pdfUrl |-> work.openAccess.pdfUrl,
                     license |-> work.openAccess.license],
     externalIds |-> work.externalIds, fieldsOfStudy |-> work.fieldsOfStudy,
     score |-> relevanceScore(work), provenance |-> <<provenanceOf(work, now)>>]

\* A faulty variant: the counts of the incoming work replace the canonical's.
foldIntoLatestCounts(existing, work, now) ==
    [title |-> existing.title,
     abstract |-> Coalesce(existing.abstract, work.abstract),
     year |-> IF existing.year # NoYear THEN existing.year ELSE work.year,
     venue |-> Coalesce(existing.venue, work.venue),
     doi |-> Coalesce(existing.doi, normalizeDoi(work.doi)),
     url |-> Coalesce(existing.url, work.url),
     paperId |-> existing.paperId,
     citationCount |-> work.citationCount,
     influentialCitationCount |-> work.influentialCitationCount,
     referenceCount |-> work.referenceCount,
     authors |-> IF Len(existing.authors) > 0 THEN existing.authors ELSE work.authors,
     openAccess |-> [isOpenAccess |-> existing.openAccess.isOpenAccess \/ work.openAccess.isOpenAccess,
                     pdfUrl |-> Coalesce(existing.openAccess.pdfUrl, work.openAccess.pdfUrl),
                     license |-> Coalesce(existing.openAccess.license, work.openAccess.license)],
     externalIds |-> work.externalIds @@ existing.externalIds,
     fieldsOfStudy |-> mergeFields(existing.fieldsOfStudy, work.fieldsOfStudy),
     score |-> Max(existing.score, relevanceScore(work)),
     provenance |-> Append(existing.provenance, provenanceOf(work, now))]

\* The field merge rules applied to an existing canonical.
foldInto(existing, work, now) ==
    [title |-> existing.title,
     abstract |-> Coalesce(existing.abstract, work.abstract),
     year |-> IF existing.year # NoYear THEN existing.year ELSE work.year,
     venue |-> Coalesce(existing.venue, work.venue),
     doi |-> Coalesce(existing.doi, normalizeDoi(work.doi)),
     url |-> Coalesce(existing.url, work.url),
     paperId |-> existing.paperId,
     citationCount |-> Max(existing.citationCount, work.citationCount),
     influentialCitationCount |->
         Max(existing.influentialCitationCount, work.influentialCitationCount),
     referenceCount |-> Max(existing.referenceCount, work.referenceCount),
     authors |-> IF Len(existing.authors) > 0 THEN existing.authors ELSE work.authors,
     openAccess |-> [isOpenAccess |-> existing.openAccess.isOpenAccess \/ work.openAccess.isOpenAccess,
                     pdfUrl |-> Coalesce(existing.openAccess.pdfUrl, work.openAccess.pdfUrl),
                     license |-> Coalesce(existing.openAccess.license, work.openAccess.license)],
     externalIds |-> work.externalIds @@ existing.externalIds,
     fieldsOfStudy |-> mergeFields(existing.fieldsOfStudy, work.fieldsOfStudy),
     score |-> Max(existing.score, relevanceScore(work)),
     provenance |-> Append(existing.provenance, provenanceOf(work, now))]

\* One iteration of the loop over the filtered works.
mergeWork(st, work, now) ==
    LET targetKey == resolveTargetKey(st, work)
        normalizedDoi == normalizeDoi(work.doi)
        titleKey == normalizeTitleKey(work.title)
        generatedKey ==
            IF normalizedDoi # NULL THEN normalizedDoi
            ELSE "title:" \o titleKey \o ":year:" \o
                 (IF work.year = NoYear THEN "na" ELSE ToString(work.year))
    IN IF targetKey = NULL
       THEN [merged |-> MapSet(st.merged, generatedKey, newCanonical(work, now)),
             doiToKey |-> IF normalizedDoi # NULL
                          THEN MapSet(st.doiToKey, normalizedDoi, generatedKey)
                          ELSE st.doiToKey,
             titleToKeys |-> indexTitle(st.titleToKeys, titleKey, generatedKey),
             targets |-> Append(st.targets, NULL)]
       ELSE IF ~MapHas(st.merged, targetKey)
       THEN [st EXCEPT !.targets = Append(@, targetKey)]
       ELSE LET folded == foldInto(MapGet(st.merged, targetKey), work, now)
            IN [merged |-> MapSet(st.merged, targetKey, folded),
                doiToKey |-> IF folded.doi # NULL
                             THEN MapSet(st.doiToKey, folded.doi, targetKey)
                             ELSE st.doiToKey,
                titleToKeys |-> indexTitle(st.titleToKeys, titleKey, targetKey),
                targets |-> Append(st.targets, targetKey)]

\* The merge loop over the first n filtered works.
RECURSIVE mergeWorks(_, _, _)
mergeWorks(filtered, n, now) ==
    IF n = 0 THEN EmptyMerge
    ELSE mergeWork(mergeWorks(filtered, n - 1, now), filtered[n], now)

\* The blended score of the final ranking, in thousandths of a Unit.
blendedScore(work, requestedSize) ==
    LET citationScore == scoreFromCitations(work.citationCount)
        recencyScore == IF work.year # NoYear
                        THEN Unit \div Max(1, CurrentYear - work.year + 1)
                        ELSE 1800
        distinctProviders == Cardinality({ work.provenance[i].provider : i \in DOMAIN work.provenance })
        diversityScore == Min(Unit, (Unit * distinctProviders) \div Max(1, requestedSize))
    IN 50 * work.score + 250 * citationScore + 150 * diversityScore
       + 100 * Min(Unit, recencyScore * 2)

\* The comparator handed to sort: negative when a goes first.
compareRanked(a, b) ==
    IF b.score - a.score # 0 THEN b.score - a.score ELSE b.citationCount - a.citationCount

RECURSIVE insertRanked(_, _)
insertRanked(sorted, work) ==
    IF sorted = <<>> THEN <<work>>
    ELSE IF compareRanked(Head(sorted), work) > 0 THEN <<work>> \o sorted
    ELSE <<Head(sorted)>> \o insertRanked(Tail(sorted), work)

\* A faulty variant: the works stay in merge order.
sortRankedNot(works) == works

\* Array.prototype.sort with compareRanked: a stable sort.
RECURSIVE sortRanked(_)
sortRanked(works) ==
    IF works = <<>> THEN <<>>
    ELSE insertRanked(sortRanked(SubSeq(works, 1, Len(works) - 1)), works[Len(works)])

\* map, sort and slice(0, limit) over merged.values()
rankWorks(merged, requestedSize, limit) ==
    LET scored == [i \in DOMAIN merged |->
                     [merged[i].value EXCEPT !.score = blendedScore(merged[i].value, requestedSize)]]
        sorted == sortRanked(scored)
    IN SubSeq(sorted, 1, Min(limit, Len(sorted)))

-----------------------------------------------------------------------------
(* LiteratureService: the search cache *)

\* A faulty variant: the same object handed on instead of a copy.
cloneResultShared(h, ref) == [heap |-> h, ref |-> ref]

\* structuredClone(value): a new object, deep-equal to the one copied.
cloneResult(h, ref) == [heap |-> Append(h, h[ref]), ref |-> Len(h) + 1]

sortStrings(strings) == SelectSeq(Alphabetical, LAMBDA x : x \in strings)

\* new Set(input.sources ?? DEFAULT_SOURCES)
requestedSourcesOf(input) ==
    Range(IF input.sources = <<>> THEN DEFAULT_SOURCES ELSE input.sources)

\* The object createCacheKey serializes (JSON.stringify is one-to-one on it).
createCacheKey(input, sources) ==
    [query |-> QueryNames[input.query],
     limit |-> input.limit,
     yearRange |-> IF input.yearRange = <<>> THEN "none"
                   ELSE ToString(input.yearRange[1]) \o ":" \o ToString(input.yearRange[2]),
     fields |-> sortStrings({ FieldNames[input.fieldsOfStudy[i]] : i \in DOMAIN input.fieldsOfStudy }),
     sources |-> sortStrings(sources)]

NoHit(cache, h) == [cache |-> cache, heap |-> h, ref |-> NoRef, cached |-> NoRef, expiresAt |-> 0]

\* A faulty variant: a cache that never answers.
getCacheNever(cache, h, cacheKey, now) == NoHit(cache, h)

\* getCache: null, or a copy of the entry's value (ref); cached is the
\* entry's own value object.
getCache(cache, h, cacheKey, now) ==
    IF config.researchGraphCacheTtlMs <= 0 THEN NoHit(cache, h)
    ELSE IF ~MapHas(cache, cacheKey) THEN NoHit(cache, h)
    ELSE LET cached == MapGet(cache, cacheKey)
         IN IF cached.expiresAt <= now
            THEN NoHit(MapDelete(cache, cacheKey), h)
            ELSE LET copy == cloneResult(h, cached.value)
                 IN [cache |-> cache, heap |-> copy.heap, ref |-> copy.ref,
                     cached |-> cached.value, expiresAt |-> cached.expiresAt]

\* A faulty variant: the entries set last are dropped.
evictOverflowNewest(cache) ==
    SubSeq(cache, 1, Min(Len(cache), config.researchGraphMaxCacheEntries))

\* The while loop of setCache: the first key of the Map is deleted as long
\* as the Map holds more than researchGraphMaxCacheEntries entries.
RECURSIVE evictOverflow(_)
evictOverflow(cache) ==
    IF Len(cache) > config.researchGraphMaxCacheEntries
    THEN evictOverflow(Tail(cache))
    ELSE cache

\* A faulty variant: a result with provider errors is not stored.
setCacheOnlyClean(cache, h, cacheKey, value, now) ==
    IF config.researchGraphCacheTtlMs <= 0 \/ h[value].providerErrors # <<>>
    THEN [cache |-> cache, heap |-> h, stored |-> NoRef, expiresAt |-> 0]
    ELSE LET live == SelectSeq(cache, LAMBDA entry : ~(entry.value.expiresAt <= now))
             copy == cloneResult(h, value)
             expiresAt == now + config.researchGraphCacheTtlMs
         IN [cache |-> evictOverflow(MapSet(live, cacheKey,
                                            [value |-> copy.ref, expiresAt |-> expiresAt])),
             heap |-> copy.heap, stored |-> copy.ref, expiresAt |-> expiresAt]

\* setCache: stored is the object the new entry holds, NoRef when caching is off.
setCache(cache, h, cacheKey, value, now) ==
    IF config.researchGraphCacheTtlMs <= 0
    THEN [cache |-> cache, heap |-> h, stored |-> NoRef, expiresAt |-> 0]
    ELSE LET live == SelectSeq(cache, LAMBDA entry : ~(entry.value.expiresAt <= now))
             copy == cloneResult(h, value)
             expiresAt == now + config.researchGraphCacheTtlMs
         IN [cache |-> evictOverflow(MapSet(live, cacheKey,
                                            [value |-> copy.ref, expiresAt |-> expiresAt])),
             heap |-> copy.heap, stored |-> copy.ref, expiresAt |-> expiresAt]

-----------------------------------------------------------------------------
(* LiteratureService.searchGraph *)

NoResult == [query |-> "", totalResults |-> 0, results |-> <<>>, providerErrors |-> <<>>]

NoPayload == [p \in Range(Providers) |-> <<>>]

InFlight == { c \in DOMAIN calls : calls[c].pc # "done" }

\* searchGraph up to the await of Promise.all: the cache lookup and, on a
\* miss, the launch of one searchWorks per requested source.  alone,
\* tamperedBefore, hit, cached, expiresAt, out, filtered and targets record
\* what the call saw and did.
SearchGraphStart(input, maxCalls) ==
    /\ Len(calls) < maxCalls
    /\ Cardinality(InFlight) < MaxInFlight
    /\ LET requestedSources == requestedSourcesOf(input)
           cacheKey == createCacheKey(input, requestedSources)
           got == getCache(searchCache, heap, cacheKey, clock)
           providerLimit == Max(input.limit,
                                input.limit * config.researchGraphProviderResultMultiplier)
           launched == SelectSeq(Providers, LAMBDA p : p \in requestedSources)
           call == [pc |-> "fanout", input |-> input, cacheKey |-> cacheKey,
                    requestedSources |-> requestedSources, providerLimit |-> providerLimit,
                    startedAt |-> clock, alone |-> InFlight = {},
                    tamperedBefore |-> { a \in DOMAIN calls : calls[a].mutated },
                    hit |-> FALSE, invoked |-> launched, pending |-> Range(launched),
                    payload |-> NoPayload, providerErrors |-> <<>>,
                    filtered |-> <<>>, targets |-> <<>>,
                    cached |-> NoRef, expiresAt |-> 0,
                    ret |-> NoRef, out |-> NoResult, mutated |-> FALSE]
       IN /\ searchCache' = got.cache
          /\ heap' = got.heap
          /\ calls' = Append(calls,
                 IF got.ref # NoRef
                 THEN [call EXCEPT !.pc = "done", !.hit = TRUE, !.invoked = <<>>,
                                   !.pending = {}, !.cached = got.cached,
                                   !.expiresAt = got.expiresAt,
                                   !.ret = got.ref, !.out = got.heap[got.ref]]
                 ELSE call)
    /\ UNCHANGED <<adapters, clock, config, nonGraphVars>>

\* A faulty variant: the rejection is swallowed without a providerErrors entry.
ProviderSettleSilent(c, provider) ==
    /\ calls[c].pc = "fanout"
    /\ provider \in calls[c].pending
    /\ calls' = [calls EXCEPT ![c].pending = @ \ {provider},
                              ![c].payload[provider] = adapters[provider].works]
    /\ UNCHANGED <<searchCache, heap, adapters, clock, config, nonGraphVars>>

\* One provider promise settles: with the adapter's works, or through the
\* catch handler that records the failure and answers [].
ProviderSettle(c, provider) ==
    /\ calls[c].pc = "fanout"
    /\ provider \in calls[c].pending
    /\ calls' = [calls EXCEPT
           ![c].pending = @ \ {provider},
           ![c].payload[provider] =
               IF adapters[provider].fails THEN <<>> ELSE adapters[provider].works,
           ![c].providerErrors =
               IF adapters[provider].fails
               THEN Append(@, [provider |-> provider, message |-> adapters[provider].message])
               ELSE @]
    /\ UNCHANGED <<searchCache, heap, adapters, clock, config, nonGraphVars>>

\* (await Promise.all(providerPromises)).flat(): the answers in push order
RECURSIVE flatResults(_, _)
flatResults(payload, i) ==
    IF i > Len(Providers) THEN <<>>
    ELSE payload[Providers[i]] \o flatResults(payload, i + 1)

\* searchGraph after Promise.all: filter, merge, rank, cache, return a copy.
SearchGraphFinish(c) ==
    /\ calls[c].pc = "fanout"
    /\ calls[c].pending = {}
    /\ LET input == calls[c].input
           providerResults == flatResults(calls[c].payload, 1)
           filtered == SelectSeq(providerResults, LAMBDA work :
                           /\ isWithinYearRange(work.year, input.yearRange)
                           /\ matchesFieldOfStudy(work, input.fieldsOfStudy))
           st == mergeWorks(filtered, Len(filtered), clock)
           ranked == rankWorks(st.merged, Cardinality(calls[c].requestedSources), input.limit)
           result == [query |-> input.query, totalResults |-> Len(ranked),
                      results |-> ranked, providerErrors |-> calls[c].providerErrors]
           set == setCache(searchCache, Append(heap, result), calls[c].cacheKey,
                           Len(heap) + 1, clock)
           copy == cloneResult(set.heap, Len(heap) + 1)
       IN /\ searchCache' = set.cache
          /\ heap' = copy.heap
          /\ calls' = [calls EXCEPT ![c].pc = "done", ![c].filtered = filtered,
                                    ![c].targets = st.targets,
                                    ![c].cached = set.stored,
                                    ![c].expiresAt = set.expiresAt,
                                    ![c].ret = copy.ref,
                                    ![c].out = copy.heap[copy.ref]]
    /\ UNCHANGED <<adapters, clock, config, nonGraphVars>>

\* What a caller may do to the result object it was given.
tampered(result) ==
    [result EXCEPT !.query = "tampered", !.results = <<>>,
                   !.providerErrors = Append(@, [provider |-> "caller", message |-> "tampered"])]

\* The caller of a returned searchGraph call mutates its result in place.
Mutate(c) ==
    /\ calls[c].pc = "done"
    /\ ~calls[c].mutated
    /\ heap' = [heap EXCEPT ![calls[c].ret] = tampered(@)]
    /\ calls' = [calls EXCEPT ![c].mutated = TRUE]
    /\ UNCHANGED <<searchCache, adapters, clock, config, nonGraphVars>>

\* Cache runs: searches that may overlap, with the cache on; callers tamper
\* with what they get and time passes.
NextGraph ==
    \/ \E input \in CacheInputs : SearchGraphStart(input, MaxCalls)
    \/ \E c \in DOMAIN calls : \E provider \in calls[c].pending : ProviderSettle(c, provider)
    \/ \E c \in DOMAIN calls : SearchGraphFinish(c)
    \/ \E c \in DOMAIN calls : Mutate(c)
    \/ Tick

InitGraphRun ==
    /\ InitIngest
    /\ InitHttp
    /\ InitTools
    /\ searchCache = <<>>
    /\ heap = <<>>
    /\ calls = <<>>
    /\ adapters \in CacheAdapters
    /\ config = DefaultConfig

SpecGraph == InitGraphRun /\ [][NextGraph]_vars

\* The searches of a capacity run: three cache keys, one of them written in
\* two ways; openalex, which rejects, is the only source or one of two.
CapacityInputs ==
    CacheInputs \cup { SearchInput("graph learning", 1, <<>>, <<>>, <<"openalex">>) }

\* Capacity runs: searches that may overlap while time passes.
NextCache ==
    \/ \E input \in CapacityInputs : SearchGraphStart(input, MaxCalls)
    \/ \E c \in DOMAIN calls : \E provider \in calls[c].pending : ProviderSettle(c, provider)
    \/ \E c \in DOMAIN calls : SearchGraphFinish(c)
    \/ Tick

\* The cache holds up to MaxCacheEntries entries, or one more.
InitCacheRun ==
    /\ InitIngest
    /\ InitHttp
    /\ InitTools
    /\ searchCache = <<>>
    /\ heap = <<>>
    /\ calls = <<>>
    /\ adapters \in CacheAdapters
    /\ \E cap \in {MaxCacheEntries, MaxCacheEntries + 1} :
         config = [DefaultConfig EXCEPT !.researchGraphMaxCacheEntries = cap]

SpecCache == InitCacheRun /\ [][NextCache]_vars

\* Merge runs: one search over every combination of adapter answers, with
\* the cache on or off.
NextMerge ==
    \/ \E input \in MergeInputs : SearchGraphStart(input, MaxMergeCalls)
    \/ \E c \in DOMAIN calls : \E provider \in calls[c].pending : ProviderSettle(c, provider)
    \/ \E c \in DOMAIN calls : SearchGraphFinish(c)

InitMergeRun ==
    /\ InitIngest
    /\ InitHttp
    /\ InitTools
    /\ searchCache = <<>>
    /\ heap = <<>>
    /\ calls = <<>>
    /\ adapters \in MergeAdapters
    /\ \E ttl \in {0, CacheTtl} :
         config = [DefaultConfig EXCEPT !.researchGraphCacheTtlMs = ttl]

SpecMerge == InitMergeRun /\ [][NextMerge]_vars

-----------------------------------------------------------------------------
(* ResearchHttpClient *)

\* What a request comes to: a 2xx response with a JSON body, a 2xx response
\* whose body is no JSON, a response with another status, a network error,
\* or the abort by the timeout.
Outcomes == {"json", "not json", "http 503", "network error", "timeout"}

\* The value fetch, response.json or the status check throws on an outcome.
thrownBy(outcome, provider, url) ==
    CASE outcome = "http 503" ->
             NewError("ResearchProviderError", "Provider " \o provider \o " returned HTTP 503",
                      {<<"url", url>>, <<"body", "Service Unavailable">>})
             @@ [provider |-> provider, status |-> 503]
      [] outcome = "not json" -> NewError("SyntaxError", "Unexpected token < in JSON at position 0", {})
      [] outcome = "network error" -> NewError("TypeError", "fetch failed", {})
      [] outcome = "timeout" -> NewError("AbortError", "This operation was aborted", {})

\* The request of an attempt is sent: waitBeforeRequest sets lastRequestAt
\* and returns, fetchJson arms the timeout and calls fetch.
sendRequest(f, c, now) ==
    [f EXCEPT !.lastRequestAt = now,
              !.requestedAt = Append(@, now),
              !.fetches[c].pc = "fetching",
              !.fetches[c].startedAt = now]

\* The loop of fetchJson enters an attempt: waitBeforeRequest up to its
\* await (the sleep of waitMs) or, when it has nothing to wait for, to the
\* fetch.
beginAttempt(f, c, now) ==
    LET waitMs == config.researchRequestDelayMs - (now - f.lastRequestAt)
    IN IF config.researchRequestDelayMs > 0 /\ waitMs > 0
       THEN [f EXCEPT !.fetches[c].pc = "waiting", !.fetches[c].wakeAt = now + waitMs]
       ELSE sendRequest(f, c, now)

\* A faulty variant: the attempt after the last is the last.
isLastAttemptLate(attempt) == attempt > config.researchRetryAttempts

\* isLastAttempt = attempt >= this.config.researchRetryAttempts
isLastAttempt(attempt) == attempt >= config.researchRetryAttempts

\* fetchJson is called: attempt = 0 and the first attempt is entered.
FetchJsonStart(provider) ==
    /\ Len(fetcher.fetches) < MaxFetches
    /\ LET c == Len(fetcher.fetches) + 1
           call == [provider |-> provider, url |-> "https://" \o provider \o ".example.org/works",
                    pc |-> "loop", attempt |-> 0, wakeAt |-> 0, startedAt |-> 0,
                    outcomes |-> <<>>, sleeps |-> 0, settled |-> Returns]
       IN fetcher' = beginAttempt([fetcher EXCEPT !.fetches = Append(@, call)], c, clock)
    /\ UNCHANGED <<ingestVars, config, httpVars, graphVars, lastToolCall, applied>>

\* The sleep of waitBeforeRequest is over: lastRequestAt is set and the
\* request sent.
FetchWaitOver(c) ==
    /\ c \in DOMAIN fetcher.fetches
    /\ fetcher.fetches[c].pc = "waiting"
    /\ clock >= fetcher.fetches[c].wakeAt
    /\ fetcher' = sendRequest(fetcher, c, clock)
    /\ UNCHANGED <<ingestVars, config, httpVars, graphVars, lastToolCall, applied>>

\* The request of an attempt comes to its outcome: the JSON is returned, or
\* the catch block keeps the error and breaks on the last attempt, else
\* sleeps researchRetryDelayMs.
FetchSettle(c, outcome) ==
    /\ c \in DOMAIN fetcher.fetches
    /\ fetcher.fetches[c].pc = "fetching"
    /\ outcome = "timeout" => clock >= fetcher.fetches[c].startedAt + config.researchTimeoutMs
    /\ LET call == fetcher.fetches[c]
           seen == [call EXCEPT !.outcomes = Append(@, outcome)]
       IN fetcher' = [fetcher EXCEPT !.fetches[c] =
            IF outcome = "json"
            THEN [seen EXCEPT !.pc = "done", !.settled = [Returns EXCEPT !.message = "json"]]
            ELSE IF isLastAttempt(call.attempt)
            THEN [seen EXCEPT !.pc = "done", !.settled = thrownBy(outcome, call.provider, call.url)]
            ELSE [seen EXCEPT !.pc = "retrying", !.sleeps = @ + 1,
                              !.wakeAt = clock + config.researchRetryDelayMs]]
    /\ UNCHANGED <<ingestVars, config, httpVars, graphVars, lastToolCall, applied>>

\* The sleep of the catch block is over: attempt += 1, and the loop goes on
\* while attempt <= researchRetryAttempts; past it the last error is thrown.
FetchRetry(c) ==
    /\ c \in DOMAIN fetcher.fetches
    /\ fetcher.fetches[c].pc = "retrying"
    /\ clock >= fetcher.fetches[c].wakeAt
    /\ LET call == fetcher.fetches[c]
           next == [fetcher EXCEPT !.fetches[c].attempt = @ + 1]
       IN fetcher' = IF call.attempt + 1 <= config.researchRetryAttempts
                     THEN beginAttempt(next, c, clock)
                     ELSE [next EXCEPT !.fetches[c].pc = "done",
                                       !.fetches[c].settled =
                                           thrownBy(call.outcomes[Len(call.outcomes)],
                                                    call.provider, call.url)]
    /\ UNCHANGED <<ingestVars, config, httpVars, graphVars, lastToolCall, applied>>

\* Time passes: while calls may come in, and while a sleep or a request
\* that can only time out is pending.
FetchTick ==
    /\ \/ clock < MaxFetchClock
       \/ \E c \in DOMAIN fetcher.fetches :
            /\ fetcher.fetches[c].pc \in {"waiting", "retrying"}
            /\ clock < fetcher.fetches[c].wakeAt
    /\ clock' = clock + 1
    /\ UNCHANGED <<sessions, closes, transportCloses, reqs, sidSeq, config, ingestVars, graphVars, lastToolCall,
                   applied, fetcher>>

NextFetch ==
    \/ \E provider \in {"openalex", "crossref"} : FetchJsonStart(provider)
    \/ \E c \in 1..MaxFetches : FetchWaitOver(c)
    \/ \E c \in 1..MaxFetches, outcome \in Outcomes : FetchSettle(c, outcome)
    \/ \E c \in 1..MaxFetches : FetchRetry(c)
    \/ FetchTick

\* Runs of one client: Date.now() is past the first request delay, and the
\* pacing and the retries are on or off.
InitFetchRun ==
    /\ InitIngest
    /\ InitGraph
    /\ InitTools
    /\ sessions = <<>>
    /\ closes = <<>>
    /\ transportCloses = <<>>
    /\ reqs = <<>>
    /\ sidSeq = 0
    /\ clock = RequestDelay
    /\ \E delay \in {0, RequestDelay}, retries \in {0, RetryAttempts} :
         config = [DefaultConfig EXCEPT !.researchRequestDelayMs = delay,
                                        !.researchRetryAttempts = retries]

SpecFetch == InitFetchRun /\ [][NextFetch]_vars

\* Timers fire, time passes and every request comes to an outcome.
SpecFetchLive ==
    /\ SpecFetch
    /\ WF_vars(FetchTick)
    /\ \A c \in 1..MaxFetches :
         /\ WF_vars(FetchWaitOver(c))
         /\ WF_vars(FetchRetry(c))
         /\ WF_vars(\E outcome \in Outcomes : FetchSettle(c, outcome))

-----------------------------------------------------------------------------
(* utils and the citation parser: functions of text *)

\* A text is the sequence of its characters.
Chars(pieces) ==
    LET RECURSIVE concat(_)
        concat(ps) == IF ps = <<>> THEN <<>> ELSE Head(ps) \o concat(Tail(ps))
    IN concat(pieces)

\* String.prototype.trim, for the white space of the runs (the blank).
trim(text) ==
    LET RECURSIVE trimStart(_)
        trimStart(t) == IF t # <<>> /\ Head(t) = " " THEN trimStart(Tail(t)) ELSE t
        RECURSIVE trimEnd(_)
        trimEnd(t) == IF t # <<>> /\ t[Len(t)] = " " THEN trimEnd(SubSeq(t, 1, Len(t) - 1)) ELSE t
    IN trimEnd(trimStart(text))

\* The letters [A-Z] and [a-z], in order.
UpperCase == <<"A", "B", "C", "D", "E", "F", "G", "H", "I", "J", "K", "L", "M",
              "N", "O", "P", "Q", "R", "S", "T", "U", "V", "W", "X", "Y", "Z">>

LowerCase == <<"a", "b", "c", "d", "e", "f", "g", "h", "i", "j", "k", "l", "m",
              "n", "o", "p", "q", "r", "s", "t", "u", "v", "w", "x", "y", "z">>

\* String.prototype.toLowerCase
toLowerCase(text) ==
    LET lower(c) == IF c \in Range(UpperCase)
                    THEN LowerCase[CHOOSE i \in DOMAIN UpperCase : UpperCase[i] = c]
                    ELSE c
    IN [i \in DOMAIN text |-> lower(text[i])]

\* The value null or undefined where a string is expected, and a string.
NullText == [null |-> TRUE, text |-> <<>>]

Text(chars) == [null |-> FALSE, text |-> chars]

\* The DOI URL prefix, with the pieces a DOI text of the runs is made of.
DoiUrl == <<"h", "t", "t", "p", "s", ":", "/", "/", "d", "o", "i", ".", "o", "r", "g", "/">>

DoiPieces ==
    { DoiUrl,
      <<"H", "T", "T", "P", ":", "/", "/", "d", "x", ".", "D", "O", "I", ".", "O", "R", "G", "/">>,
      <<"d", "o", "i", ".", "o", "r", "g", "/">>,
      <<"1", "0", ".", "1", "/">>, <<"x">>, <<"X">>, <<" ">> }

\* normalizeDoi on a text: null for null and for the empty string; else the
\* text trimmed, without the one DOI URL prefix it may start with (http or
\* https, with or without dx., in any case), in lower case.
normalizeDoiText(doi) ==
    IF doi.null \/ doi.text = <<>>
    THEN NullText
    ELSE LET trimmed == trim(doi.text)
             prefixes == { <<"h", "t", "t", "p">> \o s \o <<":", "/", "/">> \o dx
                             \o <<"d", "o", "i", ".", "o", "r", "g", "/">> :
                           s \in {<<>>, <<"s">>}, dx \in {<<>>, <<"d", "x", ".">>} }
             matched == { p \in prefixes :
                            /\ Len(p) <= Len(trimmed)
                            /\ toLowerCase(SubSeq(trimmed, 1, Len(p))) = p }
             stripped == IF matched = {} THEN trimmed
                         ELSE SubSeq(trimmed, Len(CHOOSE p \in matched : TRUE) + 1, Len(trimmed))
         IN Text(toLowerCase(stripped))

\* The texts normalizeDoi is studied on: null, and up to MaxDoiPieces pieces
\* in a row.
DoiTexts ==
    LET RECURSIVE rows(_)
        rows(n) == IF n = 0 THEN {<<>>}
                   ELSE rows(n - 1) \cup { <<p>> \o r : p \in DoiPieces, r \in rows(n - 1) }
    IN {NullText} \cup { Text(Chars(r)) : r \in rows(MaxDoiPieces) }

\* normalizeDoi is applied: to the text (once), to its own result (twice),
\* to 'https://doi.org/' + the text (prefixed).
NormalizeDoi(field) ==
    /\ applied.fn = "normalizeDoi"
    /\ applied[field] = <<>>
    /\ field = "twice" => applied.once # <<>>
    /\ field = "prefixed" => ~applied.input.null
    /\ applied' = [applied EXCEPT ![field] =
                     << normalizeDoiText(CASE field = "once" -> applied.input
                                           [] field = "twice" -> applied.once[1]
                                           [] field = "prefixed" ->
                                                Text(DoiUrl \o applied.input.text)) >>]
    /\ UNCHANGED <<ingestVars, config, httpVars, graphVars, lastToolCall, fetcher>>

\* The characters \d matches, and Number.parseInt(text, 10) on digits.
Digits == {"0", "1", "2", "3", "4", "5", "6", "7", "8", "9"}

parseInt(text) ==
    LET RECURSIVE value(_)
        value(t) == IF t = <<>> THEN 0
                    ELSE 10 * value(SubSeq(t, 1, Len(t) - 1))
                         + (CHOOSE n \in 0..9 : ToString(n) = t[Len(t)])
    IN value(text)

\* manuscriptText.matchAll(/\[([^\]]+)\]/g): the first groups of the matches,
\* left to right. A match starts at a '[' that is followed by at least one
\* character other than ']' and then a ']'; the search goes on after it.
matchAllBracketGroups(text) ==
    LET RECURSIVE from(_)
        from(i) ==
            IF i > Len(text) THEN <<>>
            ELSE IF text[i] # "[" THEN from(i + 1)
            ELSE LET closing == { q \in (i + 1)..Len(text) : text[q] = "]" }
                     q == CHOOSE c \in closing : \A d \in closing : c <= d
                 IN IF closing = {} THEN <<>>
                    ELSE IF q = i + 1 THEN from(i + 1)
                    ELSE <<SubSeq(text, i + 1, q - 1)>> \o from(q + 1)
    IN from(1)

\* inner.split(/[;,]/).map(trim).filter(length > 0)
splitChunks(inner) ==
    LET RECURSIVE split(_, _)
        split(t, chunk) ==
            IF t = <<>> THEN <<chunk>>
            ELSE IF Head(t) \in {";", ","} THEN <<chunk>> \o split(Tail(t), <<>>)
            ELSE split(Tail(t), Append(chunk, Head(t)))
        trimmed == [i \in DOMAIN split(inner, <<>>) |-> trim(split(inner, <<>>)[i])]
    IN SelectSeq(trimmed, LAMBDA chunk : Len(chunk) > 0)

\* A faulty variant: digits of any number.
matchSingleAnyLength(chunk) ==
    IF Len(chunk) >= 1 /\ Range(chunk) \subseteq Digits THEN <<chunk>> ELSE <<>>

\* chunk.match(/^(\d{1,4})$/): the group, or nothing.
matchSingle(chunk) ==
    IF Len(chunk) \in 1..4 /\ Range(chunk) \subseteq Digits THEN <<chunk>> ELSE <<>>

\* chunk.match(/^(\d{1,4})\s*[-...]\s*(\d{1,4})$/): the two groups, or
\* nothing. Of the characters of the class the texts of the runs hold the
\* hyphen; white space is the blank.
matchRange(chunk) ==
    LET cuts == { <<i, j, k>> \in (1..4) \X (1..Len(chunk)) \X (1..Len(chunk)) :
                    /\ i < j /\ j < k /\ Len(chunk) - k + 1 \in 1..4
                    /\ chunk[j] = "-"
                    /\ Range(SubSeq(chunk, 1, i)) \subseteq Digits
                    /\ Range(SubSeq(chunk, i + 1, j - 1)) \subseteq {" "}
                    /\ Range(SubSeq(chunk, j + 1, k - 1)) \subseteq {" "}
                    /\ Range(SubSeq(chunk, k, Len(chunk))) \subseteq Digits }
        cut == CHOOSE c \in cuts : TRUE
    IN IF cuts = {} THEN <<>>
       ELSE <<SubSeq(chunk, 1, cut[1]), SubSeq(chunk, cut[3], Len(chunk))>>

\* parseNumericInlineCitations: numbers is the Set of the loop, in insertion
\* order, sorted at the return; invalidChunks is the array of the loop.
parseNumericInlineCitations(manuscriptText) ==
    LET add(numbers, value) == IF value \in Range(numbers) THEN numbers ELSE Append(numbers, value)
        \* for (value = start; value <= end; value += 1) numbers.add(value)
        addRange(numbers, start, end) ==
            numbers \o SelectSeq([i \in 1..(end - start + 1) |-> start + i - 1],
                                 LAMBDA value : value \notin Range(numbers))
        RECURSIVE forChunks(_, _)
        forChunks(chunks, acc) ==
            IF chunks = <<>> THEN acc
            ELSE LET chunk == Head(chunks)
                     single == matchSingle(chunk)
                     range == matchRange(chunk)
                     start == parseInt(range[1])
                     end == parseInt(range[2])
                 IN IF single # <<>>
                    THEN forChunks(Tail(chunks), [numbers |-> add(acc.numbers, parseInt(single[1])),
                                                  parsedChunk |-> TRUE])
                    ELSE IF range # <<>> /\ start <= end /\ end - start <= 100
                    THEN forChunks(Tail(chunks), [numbers |-> addRange(acc.numbers, start, end),
                                                  parsedChunk |-> TRUE])
                    ELSE forChunks(Tail(chunks), acc)
        RECURSIVE forMatches(_, _)
        forMatches(matches, acc) ==
            IF matches = <<>> THEN acc
            ELSE LET inner == trim(Head(matches))
                     done == forChunks(splitChunks(inner),
                                       [numbers |-> acc.numbers, parsedChunk |-> FALSE])
                 IN IF inner = <<>> THEN forMatches(Tail(matches), acc)
                    ELSE forMatches(Tail(matches),
                                    [numbers |-> done.numbers,
                                     invalidChunks |->
                                        IF done.parsedChunk THEN acc.invalidChunks
                                        ELSE Append(acc.invalidChunks, <<"[">> \o inner \o <<"]">>)])
        result == forMatches(matchAllBracketGroups(manuscriptText),
                             [numbers |-> <<>>, invalidChunks |-> <<>>])
        \* [...numbers].sort((a, b) => a - b), of numbers that differ from each other
        sort(numbers) ==
            [i \in DOMAIN numbers |->
                CHOOSE a \in Range(numbers) :
                    Cardinality({ b \in Range(numbers) : b < a }) = i - 1]
    IN [numbers |-> sort(result.numbers), invalidChunks |-> result.invalidChunks]

\* The manuscripts the parser is studied on: one bracket group of up to
\* MaxCitationPieces pieces, alone or followed by the groups of the examples.
CitationPieces ==
    { <<"1">>, <<"2">>, <<"1", "0", "2">>, <<"1", "2", "3", "4", "5">>, <<"-">>, <<";">>, <<",">>,
      <<" ">>, <<"a">>, <<"]", "[">> }

ManuscriptTails ==
    { <<>>,
      <<" ", "[", "1", "-", "3", "]", " ", "[", "3", "-", "1", "]">>,
      <<" ", "[", "1", ";", " ", "2", ",", " ", "3", "]", " ", "[", "a", "b", "c", "]">> }

Manuscripts ==
    LET RECURSIVE rows(_)
        rows(n) == IF n = 0 THEN {<<>>}
                   ELSE rows(n - 1) \cup { <<p>> \o r : p \in CitationPieces, r \in rows(n - 1) }
    IN { <<"[">> \o Chars(r) \o <<"]">> \o tail : r \in rows(MaxCitationPieces), tail \in ManuscriptTails }

\* parseNumericInlineCitations is applied to the manuscript.
ParseNumericInlineCitations ==
    /\ applied.fn = "parseNumericInlineCitations"
    /\ applied.once = <<>>
    /\ applied' = [applied EXCEPT !.once = <<parseNumericInlineCitations(applied.input)>>]
    /\ UNCHANGED <<ingestVars, config, httpVars, graphVars, lastToolCall, fetcher>>

\* normalizeWhitespace: input.replace(/\s+/g, ' ').trim()
normalizeWhitespace(input) ==
    trim(SelectSeq([i \in DOMAIN input |-> IF input[i] = " " /\ i > 1 /\ input[i - 1] = " "
                                           THEN "" ELSE input[i]],
                   LAMBDA c : c # ""))

\* String.prototype.includes
includes(text, part) ==
    \E i \in 0..(Len(text) - Len(part)) : SubSeq(text, i + 1, i + Len(part)) = part

\* The positions where text holds (?:19|20)\d{2}: the position before the
\* year and the position of its last digit.
yearAt(text, i) ==
    /\ i + 4 <= Len(text)
    /\ SubSeq(text, i + 1, i + 2) \in {<<"1", "9">>, <<"2", "0">>}
    /\ {text[i + 3], text[i + 4]} \subseteq Digits

\* part.match(/^([A-Z][A-Za-z'`\-]+)(?:\s+et al\.)?(?:\s*&\s+[A-Z][A-Za-z'`\-]+)?\s*,\s*(?:19|20)\d{2}[a-z]?/):
\* the first group, or nothing. A name takes every character of its class
\* that follows, since what comes after a name is outside the class; of the
\* marks of the class the texts of the runs hold the hyphen.
matchAuthor(part) ==
    LET nameChars == Range(UpperCase) \cup Range(LowerCase) \cup {"-"}
        RECURSIVE run(_, _)
        \* the position after the characters of the set that follow position i
        run(i, set) == IF i < Len(part) /\ part[i + 1] \in set THEN run(i + 1, set) ELSE i
        \* the position after a name that starts after position i, or -1
        name(i) == IF /\ i + 2 <= Len(part)
                      /\ part[i + 1] \in Range(UpperCase)
                      /\ part[i + 2] \in nameChars
                   THEN run(i + 1, nameChars) ELSE -1
        \* the positions after zero to all of the blanks that follow position i
        blanks(i) == i..run(i, {" "})
        etAl(i) == { j + 6 : j \in { k \in blanks(i) \ {i} :
                                        /\ k + 6 <= Len(part)
                                        /\ SubSeq(part, k + 1, k + 6) = <<"e", "t", " ", "a", "l", ".">> } }
        second(i) == { name(k) : k \in UNION { blanks(j + 1) \ {j + 1} :
                                                 j \in { b \in blanks(i) : b < Len(part) /\ part[b + 1] = "&" } } }
                     \ {-1}
        first == name(0)
        afterEtAl == {first} \cup etAl(first)
        afterSecond == afterEtAl \cup UNION { second(i) : i \in afterEtAl }
        afterComma == UNION { blanks(j + 1) : j \in { b \in UNION { blanks(i) : i \in afterSecond } :
                                                        b < Len(part) /\ part[b + 1] = "," } }
    IN IF first # -1 /\ \E i \in afterComma : yearAt(part, i)
       THEN <<SubSeq(part, 1, first)>> ELSE <<>>

\* parseAuthorYearCitations: for every match of
\* /\(([^()]*?(?:19|20)\d{2}[a-z]?[^()]*)\)/g, a parenthesis without
\* parentheses inside that holds a year, the authors of its parts.
parseAuthorYearCitations(manuscriptText) ==
    LET RECURSIVE split(_, _)
        split(t, part) ==
            IF t = <<>> THEN <<part>>
            ELSE IF Head(t) = ";" THEN <<part>> \o split(Tail(t), <<>>)
            ELSE split(Tail(t), Append(part, Head(t)))
        RECURSIVE forParts(_, _)
        forParts(parts, raw) ==
            IF parts = <<>> THEN <<>>
            ELSE LET part == normalizeWhitespace(Head(parts))
                 IN (IF matchAuthor(part) = <<>> THEN <<>>
                     ELSE <<[author |-> matchAuthor(part)[1], raw |-> raw]>>)
                    \o forParts(Tail(parts), raw)
        RECURSIVE from(_)
        from(i) ==
            IF i > Len(manuscriptText) THEN <<>>
            ELSE IF manuscriptText[i] # "(" THEN from(i + 1)
            ELSE LET parens == { q \in (i + 1)..Len(manuscriptText) : manuscriptText[q] \in {"(", ")"} }
                     q == CHOOSE c \in parens : \A d \in parens : c <= d
                     block == SubSeq(manuscriptText, i + 1, q - 1)
                 IN IF parens = {} THEN <<>>
                    ELSE IF manuscriptText[q] = ")" /\ \E k \in 0..Len(block) : yearAt(block, k)
                    THEN forParts(split(block, <<>>), SubSeq(manuscriptText, i, q)) \o from(q + 1)
                    ELSE from(i + 1)
    IN from(1)

\* [...manuscriptText.matchAll(/\[(?:\?|TODO|CITATION)\]/gi)].map(match[0])
matchAllPlaceholders(manuscriptText) ==
    LET marks == { <<"[", "?", "]">>,
                   <<"[", "t", "o", "d", "o", "]">>,
                   <<"[", "c", "i", "t", "a", "t", "i", "o", "n", "]">> }
        at(i) == { m \in marks : /\ i + Len(m) - 1 <= Len(manuscriptText)
                                 /\ toLowerCase(SubSeq(manuscriptText, i, i + Len(m) - 1)) = m }
        RECURSIVE from(_)
        from(i) == IF i > Len(manuscriptText) THEN <<>>
                   ELSE IF at(i) = {} THEN from(i + 1)
                   ELSE LET m == CHOOSE x \in at(i) : TRUE
                        IN <<SubSeq(manuscriptText, i, i + Len(m) - 1)>> \o from(i + Len(m))
    IN from(1)

\* `[${value}]`
bracketed(value) ==
    LET RECURSIVE digits(_)
        digits(n) == IF n < 10 THEN <<ToString(n)>> ELSE Append(digits(n \div 10), ToString(n % 10))
    IN <<"[">> \o digits(value) \o <<"]">>

\* A style warning: a piece of the manuscript, or a message.
Quoted(text) == [text |-> text, message |-> ""]

Message(message) == [text |-> <<>>, message |-> message]

\* A faulty variant: every ordinal above the number of references but the
\* largest is reported.
isMissingOrdinalOffByOne(value, count) == value < 1 \/ value > count + 1

\* value < 1 || value > references.length
isMissingOrdinal(value, count) == value < 1 \/ value > count

\* CitationService.validateManuscriptCitations: the fields of the result that
\* come from the citations of the manuscript.
validateManuscriptCitations(manuscriptText, references, style) ==
    LET numericCitationParse == parseNumericInlineCitations(manuscriptText)
        numericCitations == numericCitationParse.numbers
        authorYearCitations == parseAuthorYearCitations(manuscriptText)
        placeholders == matchAllPlaceholders(manuscriptText)
        add(set, value) == IF value \in Range(set) THEN set ELSE Append(set, value)
        RECURSIVE addAll(_, _)
        addAll(set, values) == IF values = <<>> THEN set
                               ELSE addAll(add(set, Head(values)), Tail(values))
        cites(entry, citation) == includes(toLowerCase(entry.formatted), toLowerCase(citation.author))
        missingNumeric == SelectSeq(numericCitations, LAMBDA value : isMissingOrdinal(value, Len(references)))
        missingAuthors == SelectSeq(authorYearCitations, LAMBDA citation :
                                       ~\E i \in DOMAIN references : cites(references[i], citation))
        missingReferences ==
            addAll([i \in DOMAIN missingNumeric |-> bracketed(missingNumeric[i])],
                   [i \in DOMAIN missingAuthors |-> missingAuthors[i].raw])
        uncitedReferences ==
            SelectSeq([i \in DOMAIN references |-> i], LAMBDA index :
                         ~(\/ index \in Range(numericCitations)
                           \/ \E i \in DOMAIN authorYearCitations :
                                cites(references[index], authorYearCitations[i])))
        referencesMissingDoiUrl ==
            Cardinality({ i \in DOMAIN references :
                            LET doi == normalizeDoiText(references[i].sourceWork.doi)
                            IN ~((~doi.null /\ doi.text # <<>>) \/ Truthy(references[i].sourceWork.url)) })
        toUpperCase == [ieee |-> "IEEE", vancouver |-> "VANCOUVER", apa |-> "APA", chicago |-> "CHICAGO"]
        styleWarnings ==
            [i \in DOMAIN placeholders |-> Quoted(placeholders[i])]
            \o [i \in DOMAIN numericCitationParse.invalidChunks |->
                    Quoted(numericCitationParse.invalidChunks[i])]
            \o (IF Len(references) = 0 THEN <<Message("Reference list is empty.")>> ELSE <<>>)
            \o (IF Len(numericCitations) > 0 /\ Len(authorYearCitations) > 0
                THEN <<Message("Mixed numeric and author-year inline citation patterns detected.")>>
                ELSE <<>>)
            \o (IF style \in {"ieee", "vancouver"} /\ Len(authorYearCitations) > 0
                THEN <<Message("Expected numeric citations for " \o toUpperCase[style] \o " style.")>>
                ELSE <<>>)
            \o (IF style \in {"apa", "chicago"} /\ Len(numericCitations) > 0
                THEN <<Message("Expected author-year citations for " \o toUpperCase[style] \o " style.")>>
                ELSE <<>>)
            \o (IF style = "apa" /\ referencesMissingDoiUrl > 0
                THEN <<Message(ToString(referencesMissingDoiUrl)
                               \o " reference(s) are missing a DOI/URL, which weakens APA traceability requirements.")>>
                ELSE <<>>)
    IN [inlineCitationCount |-> Len(numericCitations) + Len(authorYearCitations),
        referenceCount |-> Len(references),
        missingReferences |-> missingReferences,
        uncitedReferences |-> uncitedReferences,
        styleWarnings |-> styleWarnings]

\* The manuscripts validateManuscriptCitations is studied on: up to
\* MaxManuscriptPieces pieces in a row, and the manuscript of the example.
ManuscriptPieces ==
    { <<"[", "1", "-", "3", "]">>, <<"[", "2", "]">>, <<"[", "0", ",", " ", "7", "]">>,
      <<"(", "D", "o", "e", ",", " ", "2", "0", "2", "3", ")">>,
      <<"(", "R", "o", "e", " ", "e", "t", " ", "a", "l", ".", ",", " ", "2", "0", "2", "0", ";", " ", "S", "m", "i", "t", "h", " ", "&", " ", "D", "o", "e", ",", " ", "2", "0", "2", "3", "b", ")">>,
      <<"(", "s", "e", "e", " ", "2", "0", "2", "3", ")">>, <<"(", "d", "o", "e", ",", " ", "2", "0", "2", "3", ")">>,
      <<"[", "T", "o", "d", "o", "]">>, <<" ">> }

ExampleManuscript ==
    <<"[", "1", "-", "3", "]", " ", ".", ".", ".", " ", "(", "D", "o", "e", ",", " ", "2", "0", "2", "3", ")", ".", " ", "[", "T", "O", "D", "O", "]">>

CitedManuscripts ==
    LET RECURSIVE rows(_)
        rows(n) == IF n = 0 THEN {<<>>}
                   ELSE rows(n - 1) \cup { <<p>> \o r : p \in ManuscriptPieces, r \in rows(n - 1) }
    IN { Chars(r) : r \in rows(MaxManuscriptPieces) } \cup {ExampleManuscript}

\* ReferenceEntry: the formatted text, with the DOI and URL of the source work.
DoeReference ==
    [formatted |-> <<"D", "o", "e", ",", " ", "J", ".", " ", "(", "2", "0", "2", "3", ")", ".", " ", "G", "r", "a", "p", "h", " ", "r", "e", "t", "r", "i", "e", "v", "a", "l", ".">>,
     sourceWork |-> [doi |-> NullText, url |-> NULL]]

SmithReference ==
    [formatted |-> <<"A", ".", " ", "S", "m", "i", "t", "h", ",", " ", "N", "e", "u", "r", "a", "l", " ", "s", "e", "a", "r", "c", "h", ",", " ", "2", "0", "2", "1", ".", " ", "h", "t", "t", "p", "s", ":", "/", "/", "d", "o", "i", ".", "o", "r", "g", "/", "1", "0", ".", "1", "/", "x">>,
     sourceWork |-> [doi |-> Text(<<"1", "0", ".", "1", "/", "x">>), url |-> "https://example.org/paper-1"]]

ReferenceLists ==
    {<<>>, <<DoeReference>>, <<SmithReference, DoeReference>>, <<SmithReference, SmithReference>>}

\* options?.style
CitationStyles == {NULL, "ieee", "vancouver", "apa", "chicago"}

\* validateManuscriptCitations is applied to the manuscript and references.
ValidateManuscriptCitations ==
    /\ applied.fn = "validateManuscriptCitations"
    /\ applied.once = <<>>
    /\ applied' = [applied EXCEPT !.once = <<validateManuscriptCitations(
                                                applied.args.manuscriptText,
                                                applied.args.references,
                                                applied.args.style)>>]
    /\ UNCHANGED <<ingestVars, config, httpVars, graphVars, lastToolCall, fetcher>>

NextPure ==
    \/ \E field \in {"once", "twice", "prefixed"} : NormalizeDoi(field)
    \/ ParseNumericInlineCitations

\* Runs that study a function: its argument is drawn, nothing has been
\* computed.
InitPureRun ==
    /\ InitIngest
    /\ InitHttp
    /\ InitGraph
    /\ lastToolCall = NoToolCall
    /\ fetcher = NewFetcher
    /\ config = DefaultConfig
    /\ applied \in { [fn |-> "normalizeDoi", input |-> doi, once |-> <<>>, twice |-> <<>>,
                       prefixed |-> <<>>] : doi \in DoiTexts }
                   \cup { [fn |-> "parseNumericInlineCitations", input |-> text, once |-> <<>>] :
                            text \in Manuscripts }

SpecPure == InitPureRun /\ [][NextPure]_vars

\* Runs that validate a manuscript against a reference list.
NextValidate == ValidateManuscriptCitations

InitValidateRun ==
    /\ InitIngest
    /\ InitHttp
    /\ InitGraph
    /\ lastToolCall = NoToolCall
    /\ fetcher = NewFetcher
    /\ config = DefaultConfig
    /\ applied \in { [fn |-> "validateManuscriptCitations", args |-> input, once |-> <<>>] :
                       input \in [manuscriptText : CitedManuscripts,
                                  references : ReferenceLists,
                                  style : CitationStyles] }

SpecValidate == InitValidateRun /\ [][NextValidate]_vars

-----------------------------------------------------------------------------
(* Claims about functions of text, checked under SpecPure *)

\* C18: normalizeDoi is idempotent on every text, normalizeDoi(normalizeDoi(x))
\* = normalizeDoi(x); and for a valid DOI x (it starts with 10. and holds no
\* blank), normalizeDoi('https://doi.org/' + x) = normalizeDoi(x).
C18_NormalizeDoiIdempotent ==
    applied.fn = "normalizeDoi"
    => /\ (applied.once # <<>> /\ applied.twice # <<>>) => applied.twice = applied.once
       /\ (/\ applied.once # <<>> /\ applied.prefixed # <<>>
           /\ Len(applied.input.text) > 3
           /\ SubSeq(applied.input.text, 1, 3) = <<"1", "0", ".">>
           /\ \A i \in DOMAIN applied.input.text : applied.input.text[i] # " ")
          => applied.prefixed = applied.once

\* The ordinals a chunk stands for: n for a number n of one to four digits,
\* a..b for a range a-b (blanks allowed around the hyphen) with
\* a <= b <= a + 100, and none for any other chunk.
C20_Ordinals(chunk) ==
    LET numerals == { t \in { SubSeq(chunk, 1, n) : n \in 1..Min(4, Len(chunk)) } :
                        Range(t) \subseteq Digits }
        ranges == { <<a, b>> \in numerals \X { SubSeq(chunk, Len(chunk) - n + 1, Len(chunk)) :
                                                  n \in 1..Min(4, Len(chunk)) } :
                      /\ Range(b) \subseteq Digits
                      /\ \E l, r \in 0..Len(chunk) :
                           /\ Len(a) + l + 1 + r + Len(b) = Len(chunk)
                           /\ chunk = a \o [i \in 1..l |-> " "] \o <<"-">> \o [i \in 1..r |-> " "] \o b
                      /\ parseInt(a) <= parseInt(b)
                      /\ parseInt(b) <= parseInt(a) + 100 }
    IN IF chunk \in numerals THEN {parseInt(chunk)}
       ELSE UNION { parseInt(ab[1])..parseInt(ab[2]) : ab \in ranges }

\* The bracket groups of the manuscript the parser was applied to, each with
\* its trimmed content and the chunks of it.
C20_Groups ==
    LET matches == matchAllBracketGroups(applied.input)
    IN [i \in DOMAIN matches |-> [inner |-> trim(matches[i]),
                                  chunks |-> Range(splitChunks(trim(matches[i])))]]

\* C20 as amended: the cited ordinals are the ordinals of the chunks of all
\* bracket groups, returned in strictly increasing order; and the invalid
\* entries are, in the order of the text, the groups '[' content ']' whose
\* trimmed content is not empty and holds no chunk that stands for an
\* ordinal. A chunk that does not parse next to one that does is dropped
\* without a record.
C20_GroupsWithoutOrdinalRecorded ==
    (applied.fn = "parseNumericInlineCitations" /\ applied.once # <<>>)
    => LET out == applied.once[1]
           invalid == SelectSeq(C20_Groups, LAMBDA g :
                         /\ g.inner # <<>>
                         /\ \A chunk \in g.chunks : C20_Ordinals(chunk) = {})
       IN /\ Range(out.numbers) = UNION { C20_Ordinals(chunk) :
                                            chunk \in UNION { g.chunks : g \in Range(C20_Groups) } }
          /\ \A i, j \in DOMAIN out.numbers : i < j => out.numbers[i] < out.numbers[j]
          /\ out.invalidChunks = [i \in DOMAIN invalid |-> <<"[">> \o invalid[i].inner \o <<"]">>]

\* C20 as stated: the cited ordinals are the ordinals of the chunks, sorted
\* and without duplicates, and every chunk that does not parse is recorded
\* as invalid (here: its bracket group is among the invalid entries).
C20_UnparsedChunksRecorded ==
    (applied.fn = "parseNumericInlineCitations" /\ applied.once # <<>>)
    => LET out == applied.once[1]
       IN /\ Range(out.numbers) = UNION { C20_Ordinals(chunk) :
                                            chunk \in UNION { g.chunks : g \in Range(C20_Groups) } }
          /\ \A i, j \in DOMAIN out.numbers : i < j => out.numbers[i] < out.numbers[j]
          /\ \A g \in Range(C20_Groups) :
                \A chunk \in g.chunks :
                    C20_Ordinals(chunk) = {}
                    => <<"[">> \o g.inner \o <<"]">> \in Range(out.invalidChunks)

\* The parser was applied to a manuscript with a group that mixes a chunk
\* that parses with one that does not, followed by [1-3] and [3-1]: it
\* returned 1, 2, 3 among the ordinals and recorded [3-1] but not the mixed
\* group.
C20_Witness ==
    /\ applied.fn = "parseNumericInlineCitations"
    /\ applied.once # <<>>
    /\ \E g \in Range(C20_Groups) :
         /\ \E chunk \in g.chunks : C20_Ordinals(chunk) = {}
         /\ \E chunk \in g.chunks : C20_Ordinals(chunk) # {}
         /\ <<"[">> \o g.inner \o <<"]">> \notin Range(applied.once[1].invalidChunks)
    /\ {1, 2, 3} \subseteq Range(applied.once[1].numbers)
    /\ <<"[", "3", "-", "1", "]">> \in Range(applied.once[1].invalidChunks)

-----------------------------------------------------------------------------
(* Claims about the validation of a manuscript, checked under SpecValidate *)

\* C21: validateManuscriptCitations reports as missing exactly the cited
\* ordinals outside 1..number of references, as '[n]', and the author-year
\* citations whose surname occurs (letter case aside) in no reference's
\* formatted text; inlineCitationCount is the number of distinct cited
\* ordinals plus the number of author-year citations; with style ieee or
\* vancouver the warning about expected numeric citations is given iff there
\* is an author-year citation. The manuscript of the example, against two
\* references with style ieee, gives count 4, '[3]' missing, the placeholder
\* '[TODO]' and the warning.
C21_MissingReferencesAndCount ==
    (applied.fn = "validateManuscriptCitations" /\ applied.once # <<>>)
    => LET in == applied.args
           out == applied.once[1]
           ordinals == Range(parseNumericInlineCitations(in.manuscriptText).numbers)
           citations == parseAuthorYearCitations(in.manuscriptText)
           occurs(author) == \E i \in DOMAIN in.references :
                                includes(toLowerCase(in.references[i].formatted), toLowerCase(author))
           numericWarning == \E i \in DOMAIN out.styleWarnings :
                                out.styleWarnings[i].message
                                    \in {"Expected numeric citations for IEEE style.",
                                         "Expected numeric citations for VANCOUVER style."}
       IN /\ Range(out.missingReferences)
               = { bracketed(n) : n \in ordinals \ (1..Len(in.references)) }
                 \cup { citations[i].raw : i \in { j \in DOMAIN citations : ~occurs(citations[j].author) } }
          /\ out.inlineCitationCount = Cardinality(ordinals) + Len(citations)
          /\ in.style \in {"ieee", "vancouver"} => (numericWarning <=> Len(citations) > 0)
          /\ (in.manuscriptText = ExampleManuscript /\ Len(in.references) = 2 /\ in.style = "ieee")
             => /\ out.inlineCitationCount = 4
                /\ bracketed(3) \in Range(out.missingReferences)
                /\ Quoted(<<"[", "T", "O", "D", "O", "]">>) \in Range(out.styleWarnings)
                /\ numericWarning

\* The manuscript of the example was validated against two references, one
\* of them Doe's, with style ieee: the count is 4 and only '[3]' is missing.
C21_Witness ==
    /\ applied.fn = "validateManuscriptCitations"
    /\ applied.once # <<>>
    /\ applied.args.manuscriptText = ExampleManuscript
    /\ applied.args.references = <<SmithReference, DoeReference>>
    /\ applied.args.style = "ieee"
    /\ applied.once[1].inlineCitationCount = 4
    /\ applied.once[1].missingReferences = <<bracketed(3)>>

-----------------------------------------------------------------------------
(* Claims about the capacity of the search cache, checked under SpecCache *)

\* C34: after every insertion the search cache holds at most
\* researchGraphMaxCacheEntries entries; the entries an insertion removes
\* beyond the expired ones are the first of the cache in insertion order,
\* the others keep their order and the key set last is present (at the end
\* when it is new or its entry had expired); and a call
\* that is answered from the cache got an entry that had not expired.
C34_CapFifoAndNoExpiredHit ==
    /\ [](Len(searchCache) <= config.researchGraphMaxCacheEntries)
    /\ [](\A c \in DOMAIN calls : calls[c].hit => calls[c].startedAt < calls[c].expiresAt)
    /\ [][ \A c \in DOMAIN calls :
             (calls[c].pc = "fanout" /\ calls'[c].pc = "done")
             => /\ MapHas(searchCache', calls[c].cacheKey)
                /\ MapGet(searchCache', calls[c].cacheKey).expiresAt
                   = clock + config.researchGraphCacheTtlMs
                /\ \A i, j \in DOMAIN searchCache :
                     (/\ i < j
                      /\ searchCache[j].value.expiresAt > clock
                      /\ ~MapHas(searchCache', searchCache[j].key))
                     => ~MapHas(searchCache', searchCache[i].key)
                /\ \A i, j \in DOMAIN searchCache' :
                     (/\ i < j
                      /\ MapHas(searchCache, searchCache'[i].key)
                      /\ MapHas(searchCache, searchCache'[j].key)
                      /\ MapGet(searchCache, searchCache'[j].key).expiresAt > clock)
                     => \E k, m \in DOMAIN searchCache :
                          /\ k < m
                          /\ searchCache[k].key = searchCache'[i].key
                          /\ searchCache[m].key = searchCache'[j].key
                /\ \A i \in DOMAIN searchCache :
                     searchCache[i].value.expiresAt <= clock
                     => \/ ~MapHas(searchCache', searchCache[i].key)
                        \/ searchCache[i].key = calls[c].cacheKey ]_vars

\* The cache holds two entries, neither expired, after a third key was set:
\* the entry of the first search is gone, the two set after it are there in
\* the order in which they were set.
C34_Witness ==
    /\ config.researchGraphMaxCacheEntries = 2
    /\ Len(calls) = 3
    /\ \A c \in DOMAIN calls : calls[c].pc = "done" /\ ~calls[c].hit
    /\ Len(searchCache) = 2
    /\ ~MapHas(searchCache, calls[1].cacheKey)
    /\ searchCache[1].key = calls[2].cacheKey
    /\ searchCache[2].key = calls[3].cacheKey
    /\ calls[1].expiresAt > clock
    /\ calls[1].cached < calls[2].cached
    /\ calls[2].cached < calls[3].cached

\* C35: with a cache TTL above zero, take two successive searchGraph calls
\* (no other search in flight when either begins) with the same cache key,
\* the first of which computed its result while some or all providers
\* failed, the second begun less than the TTL after the first began (so
\* before the entry of the first expires): the second is answered from the
\* cache, invokes no adapter and returns the result of the first, its
\* providerErrors included.
C35_FailuresAreCached ==
    \A a, b \in DOMAIN calls :
        ( /\ b = a + 1
          /\ calls[a].pc = "done" /\ calls[b].pc = "done"
          /\ calls[a].alone /\ calls[b].alone
          /\ calls[a].cacheKey = calls[b].cacheKey
          /\ config.researchGraphCacheTtlMs > 0
          /\ ~calls[a].hit
          /\ calls[a].providerErrors # <<>>
          /\ calls[b].startedAt < calls[a].startedAt + config.researchGraphCacheTtlMs )
        => /\ calls[b].hit
           /\ calls[b].invoked = <<>>
           /\ calls[b].out = calls[a].out
           /\ calls[b].out.providerErrors = calls[a].providerErrors

\* A search whose only provider failed and a search one of whose two
\* providers failed were each followed, a tick later, by the same search,
\* which was answered from the cache with the provider errors.
C35_Witness ==
    /\ Len(calls) = 3
    /\ \A c \in DOMAIN calls : calls[c].pc = "done" /\ calls[c].alone
    /\ ~calls[1].hit /\ calls[2].hit /\ ~calls[3].hit
    /\ calls[1].cacheKey = calls[2].cacheKey
    /\ calls[1].input # calls[2].input
    /\ Len(calls[1].out.results) > 0
    /\ Len(calls[2].out.providerErrors) = 1
    /\ calls[2].startedAt > calls[1].startedAt
    /\ calls[3].out.results = <<>>
    /\ Len(calls[3].out.providerErrors) = Cardinality(calls[3].requestedSources)

-----------------------------------------------------------------------------
(* Claims about the fan-out of a search, checked under SpecMerge *)

\* C23: for a fixed input and fixed provider answers (which providers fail,
\* and with what message), the output of searchGraph, results and
\* providerErrors, is the same for every order in which the provider calls
\* complete: it is the output of the run in which they complete in the
\* order they were launched.
C23_OutputSameForEveryOrder ==
    \A c \in DOMAIN calls :
        (calls[c].pc = "done" /\ ~calls[c].hit)
        => LET input == calls[c].input
               launched == calls[c].invoked
               payload == [p \in Range(Providers) |->
                              IF p \in Range(launched) /\ ~adapters[p].fails
                              THEN adapters[p].works ELSE <<>>]
               failed == SelectSeq(launched, LAMBDA p : adapters[p].fails)
               filtered == SelectSeq(flatResults(payload, 1), LAMBDA work :
                               /\ isWithinYearRange(work.year, input.yearRange)
                               /\ matchesFieldOfStudy(work, input.fieldsOfStudy))
               ranked == rankWorks(mergeWorks(filtered, Len(filtered), clock).merged,
                                   Cardinality(calls[c].requestedSources), input.limit)
           IN /\ calls[c].out.results = ranked
              /\ calls[c].out.totalResults = Len(ranked)
              /\ calls[c].out.providerErrors =
                    [i \in DOMAIN failed |-> [provider |-> failed[i],
                                              message |-> adapters[failed[i]].message]]


\* C22: with researchRequestDelayMs > 0, any two requests one client sends
\* are started at least researchRequestDelayMs apart, also when several
\* fetchJson calls run at the same time.
C22_RequestsSpaced ==
    config.researchRequestDelayMs > 0
    => \A i, j \in DOMAIN fetcher.requestedAt :
          i < j => fetcher.requestedAt[j] - fetcher.requestedAt[i] >= config.researchRequestDelayMs

\* The requests a fetchJson call has sent so far.
C28_Requests(call) == Len(call.outcomes) + (IF call.pc = "fetching" THEN 1 ELSE 0)

\* C28: a fetchJson call sends at most researchRetryAttempts + 1 requests,
\* returns on the first 2xx response with a JSON body, sleeps
\* researchRetryDelayMs only between two attempts, never after the last one,
\* and terminates, given that timers fire and every request responds, fails
\* or times out.
C28_FetchJsonBoundedAndEnds ==
    /\ [](\A c \in DOMAIN fetcher.fetches :
            LET call == fetcher.fetches[c]
            IN /\ C28_Requests(call) <= config.researchRetryAttempts + 1
               /\ \A i \in DOMAIN call.outcomes :
                     call.outcomes[i] = "json"
                     => /\ i = Len(call.outcomes)
                        /\ call.pc = "done"
                        /\ call.settled = [Returns EXCEPT !.message = "json"]
               /\ call.pc = "retrying" => /\ call.sleeps = Len(call.outcomes)
                                          /\ Len(call.outcomes) <= config.researchRetryAttempts
               /\ call.pc \in {"waiting", "fetching"} => call.sleeps = Len(call.outcomes)
               /\ call.pc = "done" => call.sleeps = Len(call.outcomes) - 1)
    /\ \A c \in 1..MaxFetches :
          (c \in DOMAIN fetcher.fetches) ~> (c \in DOMAIN fetcher.fetches /\ fetcher.fetches[c].pc = "done")

\* One call has failed after researchRetryAttempts + 1 = 2 requests with one
\* sleep between them, another has returned the JSON of its second request.
C28_Witness ==
    /\ config.researchRetryAttempts = 1
    /\ \E c, d \in DOMAIN fetcher.fetches :
         /\ fetcher.fetches[c].pc = "done"
         /\ Len(fetcher.fetches[c].outcomes) = 2
         /\ fetcher.fetches[c].settled.name # NULL
         /\ fetcher.fetches[c].sleeps = 1
         /\ fetcher.fetches[d].pc = "done"
         /\ fetcher.fetches[d].outcomes[Len(fetcher.fetches[d].outcomes)] = "json"
         /\ Len(fetcher.fetches[d].outcomes) = 2

\* C29: when the attempts of a fetchJson call are exhausted, the call fails
\* with a ResearchProviderError that carries the provider and the URL, and
\* the HTTP status and body when the last failure was a non-2xx response,
\* whatever the last failure was: network error, timeout, a 2xx response
\* without JSON body, or a non-2xx status.
C29_ExhaustionThrowsProviderError ==
    \A c \in DOMAIN fetcher.fetches :
        LET call == fetcher.fetches[c]
        IN (call.pc = "done" /\ call.settled.name # NULL)
           => /\ "ResearchProviderError" \in call.settled.instanceOf
              /\ call.settled.provider = call.provider
              /\ <<"url", call.url>> \in call.settled.details
              /\ call.outcomes[Len(call.outcomes)] = "http 503"
                 => /\ call.settled.status = 503
                    /\ \E pair \in call.settled.details : pair[1] = "body"

-----------------------------------------------------------------------------
(* Claims about the ingestion engine, checked under SpecIngest *)

\* C1: for every ingestion job, whatever the interleaving of enqueue calls
\* and worker steps, the status only moves queued -> running -> succeeded or
\* queued -> running -> failed: a job enters the table queued, no step
\* changes the status of a succeeded or failed job, running is never entered
\* again, and no job leaves the table.
C1_StatusOnlyAdvances ==
    [][ /\ DOMAIN jobs \subseteq DOMAIN jobs'
        /\ \A j \in DOMAIN jobs' :
             IF j \in DOMAIN jobs
             THEN \/ jobs'[j].status = jobs[j].status
                  \/ <<jobs[j].status, jobs'[j].status>> \in
                        { <<"queued", "running">>, <<"running", "succeeded">>,
                          <<"running", "failed">> }
             ELSE jobs'[j].status = "queued" ]_vars

C1_Witness ==
    \E a, b \in DOMAIN jobs :
        /\ jobs[a].status = "succeeded" /\ jobs[a].startedAt # NULL
        /\ jobs[b].status = "failed" /\ jobs[b].startedAt # NULL

C10_ExceptionsAbsorbed ==
    [][ \A j \in DOMAIN worker :
          (worker[j].pc = "rejected" /\ worker'[j].pc # "rejected")
          => /\ jobs'[j].status = "failed"
             /\ jobs'[j].error = worker[j].thrown
             /\ jobs'[j].error # NULL
             /\ \E r \in DOMAIN returned : returned[r].job.jobId = j
             /\ ~getJob(j)'.threw
             /\ getJob(j)'.job = jobs'[j]
             /\ ( ( /\ sourceSeed(worker[j].input) = <<"10.1000/x", NULL, NULL, NULL>>
                    /\ config.researchAllowRemotePdfs
                    /\ worker[j].thrownAt = "resolve" )
                  => jobs'[j].error = "Unable to resolve a downloadable PDF URL from input." ) ]_vars

C10_Witness ==
    \E j \in DOMAIN jobs :
        /\ sourceSeed(worker[j].input) = <<"10.1000/x", NULL, NULL, NULL>>
        /\ worker[j].pc = "done"
        /\ jobs[j].status = "failed"
        /\ jobs[j].error = "Unable to resolve a downloadable PDF URL from input."
        /\ ~getJob(j).threw

-----------------------------------------------------------------------------
(* Claims about the tool handlers, checked under SpecTools *)

\* C14: whatever tool is invoked and whatever its core throws, the promise
\* of the handler is fulfilled with a result value, an isError result when
\* something was thrown and a success payload otherwise; it is never
\* rejected.
C14_NoExceptionEscapes ==
    lastToolCall.tool # NULL
    => /\ lastToolCall.settled.promise = "fulfilled"
       /\ lastToolCall.settled.value.isError = (lastToolCall.thrown # Returns)

\* The core of a tool threw a value that is not an Error, and the handler
\* returned the fallback error result.
C14_Witness ==
    /\ lastToolCall.tool = "build_reference_list"
    /\ lastToolCall.thrown = ThrownString
    /\ lastToolCall.settled.promise = "fulfilled"
    /\ lastToolCall.settled.value.isError
    /\ lastToolCall.settled.value.structuredContent.error = "UnknownError"

\* C15: when the core throws an error that carries structured details, the
\* error result of the tool carries the error's name, its message and those
\* details.
C15_DetailsCarried ==
    (lastToolCall.tool # NULL /\ lastToolCall.thrown.details # {})
    => LET content == lastToolCall.settled.value.structuredContent
       IN /\ content.error = lastToolCall.thrown.name
          /\ content.message = lastToolCall.thrown.message
          /\ "details" \in DOMAIN content
          /\ content.details = lastToolCall.thrown.details

\* C16: every job with status succeeded has a document stored under its
\* documentId, whatever the other jobs are doing; and a get_ingestion_status
\* call on a succeeded job returns a payload with document_summary, never
\* DocumentNotFoundError.
C16_SucceededJobHasDocument ==
    /\ \A jobId \in DOMAIN jobs :
         jobs[jobId].status = "succeeded" => jobs[jobId].documentId \in DOMAIN documents
    /\ lastToolCall.tool = "get_ingestion_status"
       => /\ lastToolCall.thrown.name # "DocumentNotFoundError"
          /\ (/\ lastToolCall.args.job_id \in DOMAIN jobs
              /\ lastToolCall.thrown = Returns
              /\ lastToolCall.settled.value.structuredContent.job.status = "succeeded")
             => /\ ~lastToolCall.settled.value.isError
                /\ "document_summary" \in DOMAIN lastToolCall.settled.value.structuredContent

\* Two jobs share a documentId; one has succeeded while the other is still
\* running, and the status call on the first returned the summary of the
\* document.
C16_Witness ==
    \E j, k \in DOMAIN jobs :
      /\ j # k
      /\ jobs[j].documentId = jobs[k].documentId
      /\ jobs[j].status = "succeeded"
      /\ jobs[k].status = "running"
      /\ lastToolCall.tool = "get_ingestion_status"
      /\ lastToolCall.args.job_id = j
      /\ lastToolCall.settled.value.structuredContent.job.status = "succeeded"
      /\ lastToolCall.settled.value.structuredContent.document_summary.documentId
           = jobs[j].documentId

\* C17: an ingest_paper_fulltext invocation with none of doi, paper_url,
\* pdf_url and local_pdf_path returns a tool error and leaves the job table
\* (and the workers and documents) as it was; so every job that enters the
\* table was asked for with at least one of the four.
C17_NoSourceNoJob ==
    [][ /\ \A jobId \in DOMAIN jobs' \ DOMAIN jobs :
             \/ worker'[jobId].input.doi # NULL
             \/ worker'[jobId].input.paperUrl # NULL
             \/ worker'[jobId].input.pdfUrl # NULL
             \/ worker'[jobId].input.localPdfPath # NULL
        /\ (lastToolCall' # lastToolCall /\ lastToolCall'.tool = "ingest_paper_fulltext")
           => /\ lastToolCall'.settled.value.isError
              /\ jobs' = jobs
              /\ worker' = worker
              /\ documents' = documents ]_vars

\* With one job in the table, an invocation without any source was answered
\* with the tool error and the table still holds that one job.
C17_Witness ==
    /\ lastToolCall.tool = "ingest_paper_fulltext"
    /\ lastToolCall.args.doi = NULL /\ lastToolCall.args.paper_url = NULL
    /\ lastToolCall.args.pdf_url = NULL /\ lastToolCall.args.local_pdf_path = NULL
    /\ lastToolCall.settled.value.isError
    /\ lastToolCall.settled.value.text
         = "Provide at least one source: doi, paper_url, pdf_url, or local_pdf_path."
    /\ Cardinality(DOMAIN jobs) = 1

\* C26: the job enqueueIngestion hands back has status queued, and no
\* startedAt, at the moment enqueueIngestion returns; the transition to
\* running is made afterwards.
C26_ReturnedJobQueued ==
    \A i \in DOMAIN returned :
      /\ returned[i].job.status = "queued"
      /\ returned[i].job.startedAt = NULL

\* The steps of C27: the step in which a job reaches succeeded leaves under
\* its documentId the document that job wrote, and every other entry as it
\* was; a step in which no job reaches succeeded, the step in which a job
\* fails included, leaves the document table as it is.
C27_LastSucceededWrites ==
    \A j \in DOMAIN jobs :
      IF jobs[j].status # "succeeded" /\ jobs'[j].status = "succeeded"
      THEN /\ jobs[j].documentId \in DOMAIN documents'
           /\ documents'[jobs[j].documentId].writtenBy = j
           /\ \A d \in DOMAIN documents :
                d # jobs[j].documentId => documents'[d] = documents[d]
      ELSE (\A k \in DOMAIN jobs :
              ~(jobs[k].status # "succeeded" /\ jobs'[k].status = "succeeded"))
           => documents' = documents

C36_Tried(parseMode) ==
    LET order == IF parseMode \in {"auto", "grobid"} THEN <<"grobid", "simple">>
                 ELSE <<"simple">>
    IN SelectSeq(order, LAMBDA mode : mode = "simple" \/ config.researchGrobidUrl # NULL)

C40_EveryJobSettles ==
    /\ \A n \in 1 .. MaxDraws :
         (\E jobId \in DOMAIN jobs : jobDraw(jobId) = n)
           ~> (\E jobId \in DOMAIN jobs :
                 /\ jobDraw(jobId) = n
                 /\ jobs[jobId].status \in {"succeeded", "failed"})
    /\ [](\A jobId \in DOMAIN jobs :
            (active = NoCall /\ jobs[jobId].status \in {"queued", "running"})
              => ENABLED JobStep(jobId))
    /\ [][Cardinality({ jobId \in DOMAIN jobs :
                          \/ jobs'[jobId] # jobs[jobId]
                          \/ worker'[jobId] # worker[jobId] }) <= 1]_vars

\* The job enqueued second has succeeded while the job enqueued first is
\* still waiting for its source to be resolved.
C40_Witness ==
    \E a, b \in DOMAIN jobs :
      /\ jobDraw(a) < jobDraw(b)
      /\ jobs[a].status = "running" /\ worker[a].pc = "resolve"
      /\ jobs[b].status = "succeeded"

\* C38: source resolution takes the local branch, which leaves licenseState
\* user_provided or fails on the file, only when localPdfPath is present and
\* local PDFs are permitted; in every other case it takes the remote branch:
\* without permission for remote PDFs the job is rejected for that, with it
\* the source resolves as open_access or no PDF URL is found.
C38_LocalOnlyWhenPermitted ==
    [][ \A j \in DOMAIN worker :
          (worker[j].pc = "resolve" /\ worker'[j].pc # "resolve")
          => IF Truthy(worker[j].input.localPdfPath) /\ config.researchAllowLocalPdfs
             THEN \/ /\ worker'[j].pc = "obtain"
                     /\ jobs'[j].licenseState = "user_provided"
                     /\ worker'[j].localPdfPath = worker[j].input.localPdfPath
                  \/ /\ worker'[j].pc = "rejected"
                     /\ worker'[j].thrown = "ENOENT: no such file or directory"
             ELSE IF ~config.researchAllowRemotePdfs
             THEN /\ worker'[j].pc = "rejected"
                  /\ worker'[j].thrown = "Remote PDF ingestion is disabled by configuration."
             ELSE \/ /\ worker'[j].pc = "obtain"
                     /\ jobs'[j].licenseState = "open_access"
                     /\ worker'[j].localPdfPath = NULL
                  \/ /\ worker'[j].pc = "rejected"
                     /\ worker'[j].thrown
                          = "Unable to resolve a downloadable PDF URL from input." ]_vars

-----------------------------------------------------------------------------
(* Claims about the session manager, checked under SpecHttp *)

\* C2: in stateful mode the session table never holds more than
\* httpMaxSessions entries, whatever the sequence and interleaving of
\* inbound requests, several initialization requests in flight included.
C2_AtMostMaxSessions ==
    config.httpSessionMode = "stateful" => Len(sessions) <= config.httpMaxSessions

\* C3: in stateful mode, when a request reaches transport resolution every
\* session whose idle time clock - lastSeenAt exceeds httpSessionTtlMs is
\* removed from the table and closed in that same step, before the request
\* is looked up or dispatched; such a session never returns to the table,
\* and a request that carried its id is answered 404.
C3_ExpiredSessionsPruned ==
    [][ /\ (Len(reqs') > Len(reqs) /\ config.httpSessionMode = "stateful")
           => \A i \in DOMAIN sessions :
                (clock - sessions[i].lastSeenAt > config.httpSessionTtlMs)
                => /\ sessions[i].sessionId \notin SessionIds(sessions')
                   /\ sessions[i].sessionId \in reqs'[Len(reqs')].expired
                   /\ closes'[sessions[i].sessionId] = closes[sessions[i].sessionId] + 1
        /\ \A r \in DOMAIN reqs :
             /\ \A id \in reqs[r].expired : id \notin SessionIds(sessions')
             /\ (reqs[r].pc # "done" /\ reqs'[r].pc = "done" /\ reqs[r].sid \in reqs[r].expired)
                => reqs'[r].status = 404 ]_vars

\* A request that carried the id of a session expired at its arrival was
\* answered 404, and after a later initialization the table holds exactly
\* one session, the new one.
C3_Witness ==
    /\ \E r \in DOMAIN reqs :
         reqs[r].pc = "done" /\ reqs[r].sid \in reqs[r].expired /\ reqs[r].status = 404
    /\ \E r \in DOMAIN reqs :
         reqs[r].pc = "done" /\ reqs[r].body = "initialize" /\ reqs[r].status = 200
    /\ Len(sessions) = 1
    /\ sessions[1].createdAt > config.httpSessionTtlMs
    /\ \E id \in DOMAIN closes : closes[id] = 1

\* C11: in stateful mode, when resolveTransport looks up the session id a
\* request carries: an id that is not in the session table is answered 404
\* and the table is left as it is (no session is created or refreshed, no id
\* is issued); an id of a session in the table that is not expired routes the
\* request to that session's transport and sets that session's lastSeenAt
\* to the current time, the other fields and every other session unchanged.
C11_LookupRoutesOrRejects ==
    [][ \A r \in DOMAIN reqs :
          (/\ config.httpSessionMode = "stateful"
           /\ reqs[r].sid # NULL
           /\ reqs[r].pc = "lookup"
           /\ reqs'[r].pc # "lookup")
          => IF ~HasSession(sessions, reqs[r].sid)
             THEN /\ reqs'[r].pc = "done"
                  /\ reqs'[r].status = 404
                  /\ reqs'[r].transport = NULL
                  /\ sessions' = sessions
                  /\ sidSeq' = sidSeq
             ELSE (\A i \in DOMAIN sessions :
                     sessions[i].sessionId = reqs[r].sid => ~isStale(sessions[i], clock))
                  => /\ reqs'[r].pc = "dispatch"
                     /\ reqs'[r].transport = reqs[r].sid
                     /\ DOMAIN sessions' = DOMAIN sessions
                     /\ \A i \in DOMAIN sessions :
                          sessions'[i] =
                            IF sessions[i].sessionId = reqs[r].sid
                            THEN [sessions[i] EXCEPT !.lastSeenAt = clock]
                            ELSE sessions[i] ]_vars

\* Two sessions are in the table; a request that carried the id of one of
\* them was routed to its transport and refreshed it after its creation,
\* while the other session still has the lastSeenAt of its creation, an
\* earlier time.
C11_Witness ==
    /\ Len(sessions) = 2
    /\ \E r \in DOMAIN reqs : \E i, k \in DOMAIN sessions :
         /\ i # k
         /\ reqs[r].sid = sessions[i].sessionId
         /\ reqs[r].transport = reqs[r].sid
         /\ reqs[r].pc = "dispatch"
         /\ sessions[i].lastSeenAt = clock
         /\ sessions[i].lastSeenAt > sessions[i].createdAt
         /\ sessions[k].lastSeenAt = sessions[k].createdAt
         /\ sessions[k].lastSeenAt < sessions[i].lastSeenAt

\* C12: in stateful mode a session enters the table only in the dispatch of
\* a POST request without session id whose JSON body is an initialize
\* request.  A request without session id that is not a POST, or is a POST
\* with invalid JSON or with a body that is not an initialize request, is
\* answered 400 without reaching a transport; its steps create no session
\* and evict none: its arrival removes the expired sessions only, its later
\* steps leave the session table and the issued ids as they are.
C12_OnlyInitializeCreatesSession ==
    [][ config.httpSessionMode = "stateful"
        => /\ (SessionIds(sessions') \ SessionIds(sessions) # {})
              => \E r \in DOMAIN reqs :
                   /\ reqs[r].pc = "dispatch" /\ reqs'[r].pc = "done"
                   /\ reqs[r].sid = NULL
                   /\ reqs[r].method = "POST"
                   /\ reqs[r].body = "initialize"
           /\ \A r \in DOMAIN reqs' :
                (/\ reqs'[r].sid = NULL
                 /\ reqs'[r].method # "POST" \/ reqs'[r].body \in {"invalid", "other"}
                 /\ r \in DOMAIN reqs => reqs'[r] # reqs[r])
                => /\ reqs'[r].pc \in {"lookup", "json", "done"}
                   /\ reqs'[r].transport = NULL
                   /\ reqs'[r].pc = "done" => reqs'[r].status = 400
                   /\ sidSeq' = sidSeq
                   /\ IF r \in DOMAIN reqs
                      THEN sessions' = sessions /\ closes' = closes
                      ELSE /\ sessions' = DeleteSessions(sessions, expiredSessions(sessions, clock))
                           /\ \A id \in DOMAIN closes :
                                closes'[id] # closes[id]
                                => id \in expiredSessions(sessions, clock) ]_vars

\* The session table is full, with sessions that are not expired, and a POST
\* without session id whose body is not an initialize request has been
\* answered 400: creating a session for it would have evicted one.
C12_Witness ==
    /\ config.httpSessionMode = "stateful"
    /\ Len(sessions) = config.httpMaxSessions
    /\ \A id \in DOMAIN closes : closes[id] = 0
    /\ \E r \in DOMAIN reqs :
         /\ reqs[r].sid = NULL /\ reqs[r].method = "POST" /\ reqs[r].body = "other"
         /\ reqs[r].pc = "done" /\ reqs[r].status = 400
         /\ \A k \in DOMAIN reqs : k # r => (k < r /\ reqs[k].pc = "done")

-----------------------------------------------------------------------------
(* Claims about rejected requests and the sessions, checked under SpecGuard *)

\* C39: the arrival of a request that the Host, Origin or bearer-token check
\* rejects with 403 or 401 is the only step of that request, and it leaves
\* the session table, the closed sessions and the issued ids as they were:
\* nothing is pruned, refreshed, evicted or created, whatever session id the
\* request carries.
C39_RejectedLeavesSessions ==
    [][ /\ (/\ Len(reqs') > Len(reqs)
            /\ reqs'[Len(reqs')].status \in {401, 403})
           => /\ sessions' = sessions
              /\ closes' = closes
              /\ transportCloses' = transportCloses
              /\ sidSeq' = sidSeq
              /\ reqs'[Len(reqs')].pc = "done"
              /\ reqs'[Len(reqs')].expired = {}
        /\ \A r \in DOMAIN reqs :
             reqs[r].status \in {401, 403} => reqs'[r] = reqs[r] ]_vars

\* A request with a wrong token carried the id of a session that was in the
\* table and expired when it arrived; it was answered 401, and the session,
\* never refreshed, is still in the table.
C39_Witness ==
    \E r \in DOMAIN reqs : \E i \in DOMAIN sessions :
      /\ reqs[r].status = 401
      /\ reqs[r].sid = sessions[i].sessionId
      /\ reqs[r].rejectedAt - sessions[i].lastSeenAt > config.httpSessionTtlMs
      /\ sessions[i].lastSeenAt = sessions[i].createdAt
      /\ closes[sessions[i].sessionId] = 0

-----------------------------------------------------------------------------
(* Claims about the closing of sessions, checked under SpecSessions *)

\* C24: whatever the interleaving of TTL pruning, capacity eviction, client
\* DELETE and shutdown, every session is removed from the table and has its
\* close actions run at most once: closeSession deletes the entry in the
\* step that starts the close, a removed session never returns to the table,
\* and a second close of the same id does nothing.  A close that the client
\* started with a DELETE removes the session and closes its server without
\* closing the transport from closeSession.
C24_ClosedAtMostOnce ==
    /\ [](\A id \in DOMAIN closes :
            /\ closes[id] <= 1
            /\ transportCloses[id] <= closes[id]
            /\ HasSession(sessions, id) => closes[id] = 0)
    /\ [][ \A id \in DOMAIN closes :
             /\ (HasSession(sessions, id) /\ ~HasSession(sessions', id))
                <=> closes'[id] = closes[id] + 1
             /\ ~HasSession(sessions, id)
                => /\ ~HasSession(sessions', id)
                   /\ closes'[id] = closes[id]
                   /\ transportCloses'[id] = transportCloses[id]
             /\ (\E r \in DOMAIN reqs :
                   /\ reqs[r].pc = "dispatch" /\ reqs'[r].pc = "done"
                   /\ reqs[r].method = "DELETE" /\ reqs[r].transport = id)
                => transportCloses'[id] = transportCloses[id] ]_vars

\* Two DELETE requests for the same session were both routed to its
\* transport; the first one dispatched closed the session without closing
\* the transport from closeSession, the second one found no entry.
C24_Witness ==
    \E id \in DOMAIN closes :
      /\ closes[id] = 1
      /\ transportCloses[id] = 0
      /\ \E r, k \in DOMAIN reqs :
           /\ r # k
           /\ reqs[r].method = "DELETE" /\ reqs[r].sid = id
           /\ reqs[k].method = "DELETE" /\ reqs[k].sid = id
           /\ reqs[r].pc = "done" /\ reqs[r].status = 200
           /\ reqs[k].pc = "done" /\ reqs[k].status = 200

\* C25: when createSessionRuntime is entered for a new session and the table
\* holds at least httpMaxSessions sessions, exactly one session is evicted:
\* the first one in table order among those whose lastSeenAt is minimal over
\* the table at that moment; when the table holds fewer sessions, nothing is
\* evicted.
C25_EvictsOneOldest ==
    [][ \A r \in DOMAIN reqs :
          (reqs[r].pc = "json" /\ reqs'[r].pc = "dispatch")
          => IF Len(sessions) >= config.httpMaxSessions
             THEN \E i \in DOMAIN sessions :
                    /\ \A k \in DOMAIN sessions :
                         sessions[i].lastSeenAt <= sessions[k].lastSeenAt
                    /\ \A k \in 1..(i - 1) :
                         sessions[k].lastSeenAt > sessions[i].lastSeenAt
                    /\ sessions' = DeleteSessions(sessions, {sessions[i].sessionId})
                    /\ Len(sessions') = Len(sessions) - 1
                    /\ closes' = [closes EXCEPT ![sessions[i].sessionId] = @ + 1]
                    /\ reqs'[r].oldestSessionId = sessions[i].sessionId
             ELSE /\ sessions' = sessions
                  /\ closes' = closes
                  /\ reqs'[r].oldestSessionId = NULL ]_vars

\* Room for MaxSessions sessions: an initialize request found the table full
\* and evicted the first session while the second one, created at the same
\* time, is still in the table; no session expired and none was deleted.
C25_Witness ==
    /\ config.httpMaxSessions = MaxSessions
    /\ \E r \in DOMAIN reqs :
         /\ reqs[r].pc = "dispatch" /\ reqs[r].transport = "new"
         /\ reqs[r].oldestSessionId = SessionId(1)
    /\ closes[SessionId(1)] = 1
    /\ SessionIds(sessions) = {SessionId(2)}
    /\ sessions[1].createdAt = 0
    /\ \A r \in DOMAIN reqs : reqs[r].expired = {} /\ reqs[r].method = "POST"

-----------------------------------------------------------------------------
(* Claims about the admission of requests, checked under SpecAdmit *)

\* C13: every request to the endpoint passes the checks in the order Host,
\* Origin, bearer token.  A request whose Host is not allowed is answered 403
\* for its host; otherwise one whose Origin is not allowed is answered 403
\* for its origin; otherwise, when an API key is configured, a request other
\* than OPTIONS with no Bearer token or one that differs from the key is
\* answered 401; an OPTIONS request that passes Host and Origin is never
\* answered 401.  A request answered 401 or 403 is finished on arrival: it
\* has no transport and has pruned no session.
C13_AdmissionOrder ==
    \A r \in DOMAIN reqs :
      LET q == reqs[r]
          hostOutside == ~isHostAllowed(q.host)
          originOutside == ~isOriginAllowed(q.origin)
          tokenBad == /\ Truthy(config.apiKey)
                      /\ \/ q.authorization = NULL
                         \/ BearerToken(q.authorization) = NULL
                         \/ BearerToken(q.authorization) # config.apiKey
      IN /\ hostOutside => (q.status = 403 /\ q.error = "Forbidden host header")
         /\ (~hostOutside /\ originOutside) => (q.status = 403 /\ q.error = "Forbidden origin")
         /\ (~hostOutside /\ ~originOutside /\ q.method # "OPTIONS" /\ tokenBad)
            => (q.status = 401 /\ q.error = "Unauthorized")
         /\ (~hostOutside /\ ~originOutside /\ q.method = "OPTIONS") => q.status = 204
         /\ q.status \in {401, 403}
            => (q.pc = "done" /\ q.transport = NULL /\ q.expired = {})

\* With an API key configured, a preflight without Authorization header was
\* answered 204, and a POST whose Host is not allowed and whose token is
\* wrong was answered 403 for its host.
C13_Witness ==
    /\ Len(reqs) = 2
    /\ config.apiKey = "secret"
    /\ reqs[1].method = "OPTIONS" /\ reqs[1].authorization = NULL /\ reqs[1].status = 204
    /\ reqs[2].method = "POST" /\ reqs[2].authorization = "Bearer wrong"
    /\ ~isHostAllowed(reqs[2].host)
    /\ reqs[2].status = 403 /\ reqs[2].error = "Forbidden host header"

-----------------------------------------------------------------------------
(* Claims about the search cache, checked under SpecGraph *)

\* C4: with a cache TTL above zero, take two successive searchGraph calls (no
\* other search in flight when either begins, the second begun after the
\* first returned) with the same cache key, the first of which computed its
\* result, the second begun before the entry the first stored expires: the
\* two calls together invoke searchWorks of each requested source exactly
\* once, and they return deep-equal results.
C4_SecondCallServedFromCache ==
    \A a, b \in DOMAIN calls :
        ( /\ b = a + 1
          /\ calls[a].pc = "done" /\ calls[b].pc = "done"
          /\ calls[a].alone /\ calls[b].alone
          /\ calls[a].cacheKey = calls[b].cacheKey
          /\ config.researchGraphCacheTtlMs > 0
          /\ ~calls[a].hit
          /\ calls[b].startedAt < calls[a].expiresAt )
        => /\ \A p \in calls[a].requestedSources :
                LET invoked == calls[a].invoked \o calls[b].invoked
                IN Cardinality({ i \in DOMAIN invoked : invoked[i] = p }) = 1
           /\ calls[b].out = calls[a].out

\* Two successive calls, written differently but equal after normalisation,
\* the second begun a tick after the first computed a non-empty result.
C4_Witness ==
    \E a, b \in DOMAIN calls :
        /\ b = a + 1
        /\ calls[a].pc = "done" /\ calls[b].pc = "done"
        /\ calls[a].alone /\ calls[b].alone
        /\ calls[a].cacheKey = calls[b].cacheKey
        /\ calls[a].input # calls[b].input
        /\ ~calls[a].hit /\ calls[b].hit
        /\ calls[b].startedAt > calls[a].startedAt
        /\ calls[b].startedAt < calls[a].expiresAt
        /\ Len(calls[a].out.results) > 0
        /\ calls[b].invoked = <<>>

\* C8: every cache hit returns a result deep-equal to the one the call that
\* stored the entry computed and returned, whatever the callers of earlier
\* calls (misses or hits) have done to the result objects they were given.
C8_HitsReturnWhatWasComputed ==
    \A b \in DOMAIN calls :
        calls[b].hit =>
            \E a \in DOMAIN calls :
                /\ a < b
                /\ ~calls[a].hit
                /\ calls[a].pc = "done"
                /\ calls[a].cached = calls[b].cached
                /\ calls[b].out = calls[a].out
                /\ calls[b].out.query # "tampered"

\* A miss whose result was tampered with, then a hit whose result was
\* tampered with, then a hit that still returns what the miss computed.
C8_Witness ==
    \E a, b, c \in DOMAIN calls :
        /\ a < b /\ b < c
        /\ ~calls[a].hit /\ calls[b].hit /\ calls[c].hit
        /\ calls[a].cached = calls[c].cached
        /\ a \in calls[b].tamperedBefore
        /\ {a, b} \subseteq calls[c].tamperedBefore
        /\ heap[calls[a].ret].query = "tampered"
        /\ heap[calls[b].ret].query = "tampered"
        /\ Len(calls[c].out.results) > 0
        /\ calls[c].out = calls[a].out

-----------------------------------------------------------------------------
(* Claims about fan-out, merging and ranking, checked under SpecMerge *)

\* C5: a searchGraph call all of whose requested sources reject returns an
\* empty results list and a providerErrors list with exactly one entry per
\* requested source, carrying that source's name and the message of its
\* rejection.
C5_AllProvidersRejecting ==
    \A c \in DOMAIN calls :
        ( /\ \A p \in calls[c].requestedSources : adapters[p].fails
          /\ calls[c].pending = {} )
        => /\ ENABLED SearchGraphFinish(c) \/ calls[c].pc = "done"
           /\ calls[c].pc = "done" =>
                /\ calls[c].out.results = <<>>
                /\ calls[c].out.totalResults = 0
                /\ Len(calls[c].out.providerErrors) = Cardinality(calls[c].requestedSources)
                /\ \A p \in calls[c].requestedSources :
                     \E i \in DOMAIN calls[c].out.providerErrors :
                        calls[c].out.providerErrors[i] =
                            [provider |-> p, message |-> adapters[p].message]

\* The three default sources all rejected, crossref first, and the call returned.
C5_Witness ==
    \E c \in DOMAIN calls :
        /\ calls[c].pc = "done"
        /\ calls[c].requestedSources = {"openalex", "crossref", "semantic_scholar"}
        /\ \A p \in calls[c].requestedSources : adapters[p].fails
        /\ Len(calls[c].out.providerErrors) = 3
        /\ calls[c].out.providerErrors[1] = [provider |-> "crossref", message |-> "timeout"]
        /\ calls[c].out.results = <<>>

\* C7: the results a searchGraph call returns number at most input.limit and
\* are ordered by blended score descending, equal scores by citationCount
\* descending.
C7_ResultsBoundedAndRanked ==
    \A c \in DOMAIN calls :
        calls[c].pc = "done" =>
            LET results == calls[c].out.results
            IN /\ Len(results) <= calls[c].input.limit
               /\ \A i, j \in DOMAIN results :
                    i < j => \/ results[i].score > results[j].score
                             \/ /\ results[i].score = results[j].score
                                /\ results[i].citationCount >= results[j].citationCount

\* More canonicals than limit, and among the results two of equal score
\* that arrived in ascending order of citationCount.
C7_Witness ==
    \E c \in DOMAIN calls :
        /\ calls[c].pc = "done"
        /\ Len(calls[c].out.results) = calls[c].input.limit
        /\ Len(mergeWorks(calls[c].filtered, Len(calls[c].filtered), clock).merged)
             > calls[c].input.limit
        /\ \E i, j \in DOMAIN calls[c].out.results :
             /\ i < j
             /\ calls[c].out.results[i].score = calls[c].out.results[j].score
             /\ calls[c].out.results[i].citationCount > calls[c].out.results[j].citationCount
             /\ calls[c].out.results[i].paperId = "openalex:4"
             /\ calls[c].out.results[j].paperId = "openalex:3"

\* The conditions of C9 on a canonical and an incoming work: years at most
\* two apart (no year fits any year), and a common author id, a common
\* normalized author name, or no authors on one of the sides.
C9_Eligible(canonical, work) ==
    /\ \/ canonical.year = NoYear
       \/ work.year = NoYear
       \/ canonical.year - work.year \in -2..2
    /\ \/ canonical.authors = <<>>
       \/ work.authors = <<>>
       \/ \E i \in DOMAIN canonical.authors, j \in DOMAIN work.authors :
            \/ /\ Truthy(canonical.authors[i].authorId)
               /\ canonical.authors[i].authorId = work.authors[j].authorId
            \/ /\ AuthorNames[canonical.authors[i].name] # ""
               /\ AuthorNames[canonical.authors[i].name] = AuthorNames[work.authors[j].name]

\* Step (3) of C9: the key of the first canonical of best title similarity
\* among the eligible ones, if that similarity reaches the threshold.
C9_Fuzzy(st, work) ==
    LET sim(i) == setJaccard(TitleTokens[st.merged[i].value.title], TitleTokens[work.title])
        eligible == { i \in DOMAIN st.merged : C9_Eligible(st.merged[i].value, work)
                                               /\ sim(i).num > 0 }
        best == { i \in eligible :
                    /\ \A k \in eligible : ~FractionGreater(sim(k), sim(i))
                    /\ \A k \in eligible : k < i => FractionGreater(sim(i), sim(k)) }
    IN IF \E i \in best : sim(i).num * 100 >= config.researchGraphFuzzyTitleThreshold * sim(i).den
       THEN st.merged[CHOOSE i \in best : TRUE].key
       ELSE NULL

\* Steps (1), (3) and (4) of C9 around a given answer of step (2).
C9_Priority(st, work, exact) ==
    IF /\ Truthy(work.doi)
       /\ \E i \in DOMAIN st.doiToKey : st.doiToKey[i].key = DoiNames[work.doi]
    THEN MapGet(st.doiToKey, DoiNames[work.doi])
    ELSE IF exact # <<>> THEN Head(exact)
    ELSE C9_Fuzzy(st, work)

\* Step (2) as C9 words it: the canonicals whose own title normalizes to the
\* work's, in the order of the canonical map.
C9_ExactByOwnTitle(st, work) ==
    LET hits == SelectSeq(st.merged, LAMBDA entry :
                    /\ TitleKeys[entry.value.title] = TitleKeys[work.title]
                    /\ C9_Eligible(entry.value, work))
    IN [i \in DOMAIN hits |-> hits[i].key]

\* Step (2) over the title index: the canonicals indexed under the work's
\* normalized title (each under its own title and under the title of every
\* work folded into it), in the order in which they were indexed.
C9_ExactByTitleIndex(st, work) ==
    LET indexed == IF MapHas(st.titleToKeys, TitleKeys[work.title])
                   THEN MapGet(st.titleToKeys, TitleKeys[work.title]) ELSE <<>>
    IN SelectSeq(indexed, LAMBDA key : C9_Eligible(MapGet(st.merged, key), work))

\* What folding work n of a call does, given the target the priority names:
\* the target gains one provenance entry and no canonical is added, or (no
\* target) a canonical built from the work alone is put into the map.
C9_FoldsInto(c, n, target) ==
    LET before == mergeWorks(calls[c].filtered, n - 1, clock)
        after == mergeWorks(calls[c].filtered, n, clock)
        work == calls[c].filtered[n]
    IN /\ calls[c].targets[n] = target
       /\ IF target # NULL
          THEN /\ Len(after.merged) = Len(before.merged)
               /\ \A i \in DOMAIN before.merged :
                    IF before.merged[i].key = target
                    THEN /\ Len(after.merged[i].value.provenance)
                              = Len(before.merged[i].value.provenance) + 1
                         /\ after.merged[i].value.provenance[Len(after.merged[i].value.provenance)].provider
                              = work.provider
                    ELSE after.merged[i] = before.merged[i]
          ELSE \E i \in DOMAIN after.merged :
                    /\ after.merged[i].value.paperId = work.providerId
                    /\ after.merged[i].value.title = work.title
                    /\ Len(after.merged[i].value.provenance) = 1

\* The scenario of C9: the test's three works give two results, the first
\* merged from two providers, the unrelated one on its own.
C9_Scenario(c) ==
    (calls[c].filtered = <<Openalex1, Crossref1, Semantic1>> /\ calls[c].input.limit >= 2)
    => /\ Len(calls[c].out.results) = 2
       /\ \E i \in 1..2 :
            /\ calls[c].out.results[i].title = "Graph Neural Networks for Scientific Retrieval"
            /\ calls[c].out.results[i].year = 2023
            /\ Len(calls[c].out.results[i].provenance) = 2
       /\ \E i \in 1..2 :
            /\ calls[c].out.results[i].title = "Transformer Baselines for Retrieval"
            /\ Len(calls[c].out.results[i].provenance) = 1

C19_FoldKeepsLargestCounts ==
    \A c \in DOMAIN calls :
        (calls[c].pc = "done" /\ ~calls[c].hit) =>
            \A n \in DOMAIN calls[c].filtered :
                LET before == mergeWorks(calls[c].filtered, n - 1, clock)
                    after == mergeWorks(calls[c].filtered, n, clock)
                    work == calls[c].filtered[n]
                    target == calls[c].targets[n]
                IN (target # NULL /\ MapHas(before.merged, target))
                   => \A count \in {"citationCount", "influentialCitationCount", "referenceCount"} :
                        LET old == MapGet(before.merged, target)[count]
                            new == MapGet(after.merged, target)[count]
                        IN /\ new >= old
                           /\ new >= work[count]
                           /\ new \in {old, work[count]}

\* In one search a work with fewer citations than the canonical it joins
\* left the canonical's count as it was, and a work with more citations
\* raised the count of the canonical it joined.
C19_Witness ==
    \E c \in DOMAIN calls :
        /\ calls[c].pc = "done"
        /\ ~calls[c].hit
        /\ \E n, m \in DOMAIN calls[c].filtered :
             LET old(k) == MapGet(mergeWorks(calls[c].filtered, k - 1, clock).merged,
                                  calls[c].targets[k]).citationCount
                 new(k) == MapGet(mergeWorks(calls[c].filtered, k, clock).merged,
                                  calls[c].targets[k]).citationCount
             IN /\ calls[c].targets[n] # NULL
                /\ calls[c].targets[m] # NULL
                /\ calls[c].filtered[n].citationCount < old(n)
                /\ new(n) = old(n)
                /\ calls[c].filtered[m].citationCount > old(m)
                /\ new(m) = calls[c].filtered[m].citationCount

\* The provenance entries of the canonicals of a merge, counted together.
RECURSIVE C30_ProvenanceEntries(_)
C30_ProvenanceEntries(merged) ==
    IF merged = <<>> THEN 0
    ELSE Len(Head(merged).value.provenance) + C30_ProvenanceEntries(Tail(merged))

\* C30: in the merge of a search, before the truncation to limit, a work for
\* which no target is resolved adds a canonical and replaces none, and the
\* provenance entries of all canonicals together are as many as the filtered
\* works: every filtered work is represented in exactly one canonical.
C30_EveryWorkInOneCanonical ==
    \A c \in DOMAIN calls :
        (calls[c].pc = "done" /\ ~calls[c].hit) =>
            /\ \A n \in DOMAIN calls[c].filtered :
                 LET before == mergeWorks(calls[c].filtered, n - 1, clock)
                     after == mergeWorks(calls[c].filtered, n, clock)
                 IN calls[c].targets[n] = NULL
                    => Len(after.merged) = Len(before.merged) + 1
            /\ C30_ProvenanceEntries(
                   mergeWorks(calls[c].filtered, Len(calls[c].filtered), clock).merged)
               = Len(calls[c].filtered)

\* C31: in the merge of a search no work is folded into a canonical whose
\* DOI is another one than the normalized DOI of the work, and in every
\* canonical of the merge doi and externalIds.doi, where both are present,
\* are the same DOI.
C31_OneDoiPerCanonical ==
    \A c \in DOMAIN calls :
        (calls[c].pc = "done" /\ ~calls[c].hit) =>
            /\ \A n \in DOMAIN calls[c].filtered :
                 LET before == mergeWorks(calls[c].filtered, n - 1, clock)
                     work == calls[c].filtered[n]
                     target == calls[c].targets[n]
                 IN (/\ target # NULL
                     /\ MapHas(before.merged, target)
                     /\ MapGet(before.merged, target).doi # NULL
                     /\ normalizeDoi(work.doi) # NULL)
                    => MapGet(before.merged, target).doi = normalizeDoi(work.doi)
            /\ LET merged == mergeWorks(calls[c].filtered, Len(calls[c].filtered), clock).merged
               IN \A i \in DOMAIN merged :
                    (/\ merged[i].value.doi # NULL
                     /\ "doi" \in DOMAIN merged[i].value.externalIds)
                    => normalizeDoi(merged[i].value.externalIds.doi) = merged[i].value.doi

\* C32: every canonical of the merge of a search has as many provenance
\* entries as there are distinct providers among them, one per provider that
\* contributed.
C32_OneProvenancePerProvider ==
    \A c \in DOMAIN calls :
        (calls[c].pc = "done" /\ ~calls[c].hit) =>
            LET merged == mergeWorks(calls[c].filtered, Len(calls[c].filtered), clock).merged
            IN \A i \in DOMAIN merged :
                 LET provenance == merged[i].value.provenance
                 IN Len(provenance)
                    = Cardinality({ provenance[k].provider : k \in DOMAIN provenance })

\* C33: when a work is folded into a canonical, the externalIds of the
\* canonical become the union of both maps, and a key of both keeps the
\* value the canonical had.
C33_ExternalIdsIncumbentWins ==
    \A c \in DOMAIN calls :
        (calls[c].pc = "done" /\ ~calls[c].hit) =>
            \A n \in DOMAIN calls[c].filtered :
                LET before == mergeWorks(calls[c].filtered, n - 1, clock)
                    after == mergeWorks(calls[c].filtered, n, clock)
                    work == calls[c].filtered[n]
                    target == calls[c].targets[n]
                IN (target # NULL /\ MapHas(before.merged, target))
                   => LET old == MapGet(before.merged, target).externalIds
                          new == MapGet(after.merged, target).externalIds
                      IN /\ DOMAIN new = DOMAIN old \cup DOMAIN work.externalIds
                         /\ \A key \in DOMAIN new :
                              new[key] = IF key \in DOMAIN old THEN old[key]
                                         ELSE work.externalIds[key]

=============================================================================
